---- MODULE Spec2Model ----
(***************************************************************************)
(* State-machine model of programs/marketplace/src/lib.rs: the escrow      *)
(* rooms, the presale campaign and the item-type registry.  Every          *)
(* instruction is one atomic action: it either commits all of its effects  *)
(* or fails and changes nothing but the record of the last call (`last`).  *)
(***************************************************************************)
EXTENDS Integers, FiniteSets, Sequences, TLC

VARIABLES
    bal,        \* lamports of every wallet (system accounts, no data)
    rooms,      \* Room accounts by derived address (creator, room_id)
    presale,    \* the single Presale account (seeds = ["presale"])
    contrib,    \* PresaleContribution accounts, one per contributor
    registry,   \* Marketplace, NFTCollection and NftType accounts
    clock,      \* Clock::get()?.unix_timestamp
    last,       \* the last instruction: name, signer, inputs and outcome
    ghost,      \* history: what contribute has moved, what restarts and ends ran
    staking,    \* StakePool, StakeAccount, vault and token accounts
    calc        \* inputs and results of the reward computation on its own

vars == <<bal, rooms, presale, contrib, registry, clock, last, ghost, staking, calc>>

-----------------------------------------------------------------------------
(* Bounds of the model *)

Users == {"alice", "bob", "carol"}
None == "none"

\* largest stake_lamports / lamports argument a caller passes
MaxAmount == 2
\* lamports every wallet starts with
InitBal == 4
\* Rent::get()?.minimum_balance(Room::space(None)), scaled down
RoomRent == 1
\* Rent::get()?.minimum_balance(Presale::space()), scaled down
PresaleRent == 1
\* rent of a PresaleContribution account, scaled down
ContribRent == 1
\* rent of the mint, token and metadata accounts a buyer pays for, scaled down
MintRent == 1
\* rent of the accounts create_nft_collection and create_nft_type set up
RegistryRent == 1
\* the presale window of 86_400 seconds, scaled down
PresaleWindow == 2
\* the presale target of 845 * 1_000_000_000 lamports, scaled down
PresaleTarget == 3
\* last reading of the clock the model explores
MaxClock == 3
\* restart_presale calls the model explores
MaxRestarts == 1
\* u64::MAX, scaled down to 25 bits: wide enough for a reward of 2000 at
\* 10000 basis points, narrow enough for the model to saturate
U64Max == 33554431
\* largest exact product the model computes for comparison
MaxExact == 2000000000
\* largest max_supply an item-type is created with
MaxSupply == 2
\* rent of the StakePool and of the reward vault, scaled down
PoolRent == 1
\* rent of a StakeAccount, scaled down; returned when the account is closed
StakeRent == 1
\* rent of a vault_nft_token_account, scaled down
VaultRent == 1
\* rent of a staker's reward token account, scaled down
RewardAccountRent == 1
\* most reward tokens the reward vault is funded with
MaxVault == 3
\* last reading of the clock the staking model explores
MaxStakeClock == 2

\* room_id values a caller passes
RoomIds == {1}

\* wallets that take part in the presale
PresaleUsers == {"alice", "bob"}
RoomKeys == Users \X RoomIds

\* collection mints an item's metadata may reference; a collection's name
\* stands for its account and for its mint
Collections == {"colA", "colB"}

\* type_name values a caller passes
TypeNames == {1}
TypeKeys == Collections \X TypeNames

\* wallets that take part in the registry
RegistryUsers == {"alice", "bob"}

\* stake_multiplier values a caller passes (basis points)
Multipliers == {0, 10000}

-----------------------------------------------------------------------------
(* Runtime services the instructions call *)

\* System Program transfer.  It rejects a source account that carries data
\* (the reason end_presale adjusts balances directly: "source has data") and
\* a source that holds fewer lamports than the amount.
SystemTransferErr(fromCarriesData, fromLamports, amount) ==
    IF fromCarriesData THEN "TransferFromMustNotCarryData"
    ELSE IF amount > fromLamports THEN "InsufficientLamports"
    ELSE "Ok"

\* u64::saturating_add
SaturatingAdd(a, b) == IF a + b > U64Max THEN U64Max ELSE a + b

\* u64::saturating_sub
\* a subtraction that takes nothing off
SaturatingSub_Keeps(a, b) == a

SaturatingSub(a, b) == IF a >= b THEN a - b ELSE 0

-----------------------------------------------------------------------------
(* Escrow rooms *)

Waiting == 0
Ongoing == 1
Closed == 2

NoRoom == [exists |-> FALSE, creator |-> None, challenger |-> None,
           room_id |-> 0, stake_lamports |-> 0, status |-> Waiting,
           lamports |-> 0]

\* The holder/collection gate of create_room and join_room: the caller's
\* token account of the nominated mint holds `amount`, the mint's metadata
\* references `metaColl` (None: no collection), the caller passes `gateMint`.
NftGateErr(amount, metaColl, gateMint) ==
    IF amount < 1 THEN "Unauthorized"
    ELSE IF metaColl = None THEN "Unauthorized"
    ELSE IF metaColl # gateMint THEN "Unauthorized"
    ELSE "Ok"

\* the record of a call: `caller` is the wallet the instruction acts for,
\* `signers` are the wallets that signed the transaction
Call(op, caller, key, amount, nftOK, err) ==
    [op |-> op, caller |-> caller, signers |-> {caller}, key |-> key,
     amount |-> amount, nftOK |-> nftOK, err |-> err, at |-> clock]

\* create_room: `init` of the room account (payer = creator), then the handler
CreateRoomErr(creator, room_id, stake, amount, metaColl, gateMint) ==
    IF rooms[<<creator, room_id>>].exists THEN "AccountAlreadyInUse"
    ELSE IF bal[creator] < RoomRent THEN "InsufficientLamports"
    ELSE IF ~(stake > 0) THEN "InsufficientFunds"
    ELSE IF NftGateErr(amount, metaColl, gateMint) # "Ok" THEN "Unauthorized"
    ELSE SystemTransferErr(FALSE, bal[creator] - RoomRent, stake)

create_room(creator, room_id, stake, amount, metaColl, gateMint) ==
    LET key == <<creator, room_id>>
        err == CreateRoomErr(creator, room_id, stake, amount, metaColl, gateMint)
    IN  /\ last' = Call("create_room", creator, key, stake,
                        NftGateErr(amount, metaColl, gateMint) = "Ok", err)
        /\ IF err = "Ok"
           THEN /\ rooms' = [rooms EXCEPT ![key] =
                       [exists |-> TRUE, creator |-> creator, challenger |-> None,
                        room_id |-> room_id, stake_lamports |-> stake,
                        status |-> Waiting, lamports |-> RoomRent + stake]]
                /\ bal' = [bal EXCEPT ![creator] = @ - RoomRent - stake]
           ELSE UNCHANGED <<rooms, bal>>
        /\ UNCHANGED <<presale, contrib, registry, clock, ghost, staking, calc>>

\* join_room that lets the creator match the own stake
JoinRoomErr_CreatorMayJoin(challenger, key, amount, metaColl, gateMint) ==
    LET room == rooms[key]
    IN  IF ~room.exists THEN "AccountNotInitialized"
        ELSE IF room.status # Waiting THEN "RoomNotWaiting"
        ELSE IF room.challenger # None THEN "RoomHasChallenger"
        ELSE IF NftGateErr(amount, metaColl, gateMint) # "Ok" THEN "Unauthorized"
        ELSE SystemTransferErr(FALSE, bal[challenger], room.stake_lamports)

\* join_room that does not look at the room's status
JoinRoomErr_NoStatusCheck(challenger, key, amount, metaColl, gateMint) ==
    LET room == rooms[key]
    IN  IF ~room.exists THEN "AccountNotInitialized"
        ELSE IF ~(challenger # room.creator) THEN "Unauthorized"
        ELSE IF NftGateErr(amount, metaColl, gateMint) # "Ok" THEN "Unauthorized"
        ELSE SystemTransferErr(FALSE, bal[challenger], room.stake_lamports)

\* the collection referenced by the metadata of the one NFT each wallet
\* holds (None: the metadata references no collection)
HeldCollection ==
    [u \in Users |-> IF u = "alice" THEN "colA"
                     ELSE IF u = "bob" THEN "colB" ELSE None]

\* what the token account of `caller` for the NFT of `holder` holds
TokenAmount(caller, holder) == IF caller = holder THEN 1 ELSE 0

\* join_room that admits only an NFT of the collection of the creator's NFT
JoinRoomErr_CreatorsCollection(challenger, key, amount, metaColl, gateMint) ==
    LET room == rooms[key]
    IN  IF ~room.exists THEN "AccountNotInitialized"
        ELSE IF room.status # Waiting THEN "RoomNotWaiting"
        ELSE IF room.challenger # None THEN "RoomHasChallenger"
        ELSE IF ~(challenger # room.creator) THEN "Unauthorized"
        ELSE IF NftGateErr(amount, metaColl, gateMint) # "Ok" THEN "Unauthorized"
        ELSE IF metaColl # HeldCollection[room.creator] THEN "Unauthorized"
        ELSE SystemTransferErr(FALSE, bal[challenger], room.stake_lamports)

\* join_room: the handler's checks in their order, then the stake transfer
JoinRoomErr(challenger, key, amount, metaColl, gateMint) ==
    LET room == rooms[key]
    IN  IF ~room.exists THEN "AccountNotInitialized"
        ELSE IF room.status # Waiting THEN "RoomNotWaiting"
        ELSE IF room.challenger # None THEN "RoomHasChallenger"
        ELSE IF ~(challenger # room.creator) THEN "Unauthorized"
        ELSE IF NftGateErr(amount, metaColl, gateMint) # "Ok" THEN "Unauthorized"
        ELSE SystemTransferErr(FALSE, bal[challenger], room.stake_lamports)

\* join_room that records the challenger and leaves the status Waiting
join_room_StaysWaiting(challenger, key, amount, metaColl, gateMint) ==
    LET room == rooms[key]
        err == JoinRoomErr(challenger, key, amount, metaColl, gateMint)
    IN  /\ last' = Call("join_room", challenger, key, room.stake_lamports,
                        NftGateErr(amount, metaColl, gateMint) = "Ok", err)
        /\ IF err = "Ok"
           THEN /\ rooms' = [rooms EXCEPT ![key] =
                       [@ EXCEPT !.challenger = challenger,
                                 !.lamports = @ + room.stake_lamports]]
                /\ bal' = [bal EXCEPT ![challenger] = @ - room.stake_lamports]
           ELSE UNCHANGED <<rooms, bal>>
        /\ UNCHANGED <<presale, contrib, registry, clock, ghost, staking, calc>>

join_room(challenger, key, amount, metaColl, gateMint) ==
    LET room == rooms[key]
        err == JoinRoomErr(challenger, key, amount, metaColl, gateMint)
    IN  /\ last' = Call("join_room", challenger, key, room.stake_lamports,
                        NftGateErr(amount, metaColl, gateMint) = "Ok", err)
        /\ IF err = "Ok"
           THEN /\ rooms' = [rooms EXCEPT ![key] =
                       [@ EXCEPT !.challenger = challenger, !.status = Ongoing,
                                 !.lamports = @ + room.stake_lamports]]
                /\ bal' = [bal EXCEPT ![challenger] = @ - room.stake_lamports]
           ELSE UNCHANGED <<rooms, bal>>
        /\ UNCHANGED <<presale, contrib, registry, clock, ghost, staking, calc>>

\* what resolve_room moves out of the room before Anchor closes it
RoomTransferable(room) == SaturatingSub(room.lamports, RoomRent)

\* resolve_room that does not look at the room's status
ResolveRoomErr_NoStatusCheck(signer, key) ==
    LET room == rooms[key]
    IN  IF ~room.exists THEN "AccountNotInitialized"
        ELSE IF <<signer, room.room_id>> # key THEN "ConstraintSeeds"
        ELSE IF RoomTransferable(room) > 0
             THEN SystemTransferErr(TRUE, room.lamports, RoomTransferable(room))
             ELSE "Ok"

\* resolve_room: the seeds constraint of ResolveRoom re-derives the room's
\* address from the signer, so it admits the room's creator only; then the
\* handler's checks and the System Program transfer out of the room account
ResolveRoomErr(signer, key) ==
    LET room == rooms[key]
    IN  IF ~room.exists THEN "AccountNotInitialized"
        ELSE IF <<signer, room.room_id>> # key THEN "ConstraintSeeds"
        ELSE IF room.status # Ongoing THEN "RoomNotOngoing"
        ELSE IF signer # room.creator THEN "Unauthorized"
        ELSE IF RoomTransferable(room) > 0
             THEN SystemTransferErr(TRUE, room.lamports, RoomTransferable(room))
             ELSE "Ok"

\* resolve_room that also closes a Waiting room for its creator
resolve_room_CancelsWaiting(signer, key) ==
    LET room == rooms[key]
        err == IF room.exists /\ <<signer, room.room_id>> = key
                  /\ room.status = Waiting
               THEN "Ok" ELSE ResolveRoomErr(signer, key)
    IN  /\ last' = Call("resolve_room", signer, key, RoomTransferable(room), TRUE, err)
        /\ IF err = "Ok"
           THEN /\ bal' = [bal EXCEPT ![signer] = @ + room.lamports]
                /\ rooms' = [rooms EXCEPT ![key] = NoRoom]
           ELSE UNCHANGED <<rooms, bal>>
        /\ UNCHANGED <<presale, contrib, registry, clock, ghost, staking, calc>>

\* resolve_room: the handler, then `close = creator`
resolve_room(signer, key) ==
    LET room == rooms[key]
        err == ResolveRoomErr(signer, key)
    IN  /\ last' = Call("resolve_room", signer, key, RoomTransferable(room), TRUE, err)
        /\ IF err = "Ok"
           THEN \* transfer of `transferable`, then `close = creator` hands over the rest
                /\ bal' = [bal EXCEPT ![signer] = @ + room.lamports]
                /\ rooms' = [rooms EXCEPT ![key] = NoRoom]
           ELSE UNCHANGED <<rooms, bal>>
        /\ UNCHANGED <<presale, contrib, registry, clock, ghost, staking, calc>>

-----------------------------------------------------------------------------
(* Presale campaign *)

NoKey == <<None, 0>>

NoPresale == [exists |-> FALSE, admin |-> None, start_ts |-> 0, end_ts |-> 0,
              total_raised |-> 0, target_lamports |-> 0, is_active |-> FALSE,
              lamports |-> 0]

NoContribution == [exists |-> FALSE, amount |-> 0]

\* initialize_presale: `init` of the presale account (payer = admin)
InitializePresaleErr(admin) ==
    IF presale.exists THEN "AccountAlreadyInUse"
    ELSE IF bal[admin] < PresaleRent THEN "InsufficientLamports"
    ELSE "Ok"

initialize_presale(admin) ==
    LET err == InitializePresaleErr(admin)
    IN  /\ last' = Call("initialize_presale", admin, NoKey, 0, TRUE, err)
        /\ IF err = "Ok"
           THEN /\ presale' = [exists |-> TRUE, admin |-> admin,
                               start_ts |-> clock, end_ts |-> clock + PresaleWindow,
                               total_raised |-> 0, target_lamports |-> PresaleTarget,
                               is_active |-> TRUE, lamports |-> PresaleRent]
                /\ bal' = [bal EXCEPT ![admin] = @ - PresaleRent]
           ELSE UNCHANGED <<presale, bal>>
        /\ UNCHANGED <<rooms, contrib, registry, clock, ghost, staking, calc>>

\* restart_presale without its admin check
RestartPresaleErr_NoAdminCheck(signer) ==
    IF ~presale.exists THEN "AccountNotInitialized"
    ELSE "Ok"

RestartPresaleErr(signer) ==
    IF ~presale.exists THEN "AccountNotInitialized"
    ELSE IF ~(signer = presale.admin) THEN "Unauthorized"
    ELSE "Ok"

restart_presale(signer) ==
    LET err == RestartPresaleErr(signer)
    IN  /\ last' = Call("restart_presale", signer, NoKey, 0, TRUE, err)
        /\ IF err = "Ok"
           THEN /\ presale' = [presale EXCEPT !.is_active = TRUE,
                                              !.start_ts = clock,
                                              !.end_ts = clock + PresaleWindow,
                                              !.total_raised = 0]
                /\ ghost' = [ghost EXCEPT !.restarts = @ + 1]
           ELSE UNCHANGED <<presale, ghost>>
        /\ UNCHANGED <<bal, rooms, contrib, registry, clock, staking, calc>>

\* rent the contributor pays when `init_if_needed` creates the record
ContributionRentDue(contributor) ==
    IF contrib[contributor].exists THEN 0 ELSE ContribRent

\* contribute_presale that refuses a contribution made at end_ts itself
ContributePresaleErr_StrictDeadline(contributor, lamports) ==
    IF ~presale.exists THEN "AccountNotInitialized"
    ELSE IF bal[contributor] < ContributionRentDue(contributor)
         THEN "InsufficientLamports"
    ELSE IF ~(lamports > 0) THEN "InsufficientFunds"
    ELSE IF ~presale.is_active THEN "PresaleNotActive"
    ELSE IF ~(clock < presale.end_ts) THEN "PresaleEnded"
    ELSE SystemTransferErr(FALSE,
             bal[contributor] - ContributionRentDue(contributor), lamports)

\* contribute_presale: the accounts (presale loaded, contribution created if
\* needed), then the handler's checks in their order, then the transfer
ContributePresaleErr(contributor, lamports) ==
    IF ~presale.exists THEN "AccountNotInitialized"
    ELSE IF bal[contributor] < ContributionRentDue(contributor)
         THEN "InsufficientLamports"
    ELSE IF ~(lamports > 0) THEN "InsufficientFunds"
    ELSE IF ~presale.is_active THEN "PresaleNotActive"
    ELSE IF ~(clock <= presale.end_ts) THEN "PresaleEnded"
    ELSE SystemTransferErr(FALSE,
             bal[contributor] - ContributionRentDue(contributor), lamports)

\* contrib.amount after a contribution
ContributionAmount(old, lamports) == SaturatingAdd(old, lamports)

\* total_raised that keeps the last contribution only
TotalRaised_Overwrites(old, lamports) == lamports

\* presale.total_raised after a contribution
TotalRaised(old, lamports) == SaturatingAdd(old, lamports)

contribute_presale(contributor, lamports) ==
    LET err == ContributePresaleErr(contributor, lamports)
    IN  /\ last' = Call("contribute_presale", contributor, NoKey, lamports, TRUE, err)
        /\ IF err = "Ok"
           THEN /\ bal' = [bal EXCEPT ![contributor] =
                              @ - ContributionRentDue(contributor) - lamports]
                /\ contrib' = [contrib EXCEPT ![contributor] =
                       [exists |-> TRUE,
                        amount |-> ContributionAmount(@.amount, lamports)]]
                /\ presale' = [presale EXCEPT
                       !.lamports = @ + lamports,
                       !.total_raised = TotalRaised(@, lamports)]
                /\ ghost' = [ghost EXCEPT !.paid[contributor] = @ + lamports]
           ELSE UNCHANGED <<bal, contrib, presale, ghost>>
        /\ UNCHANGED <<rooms, registry, clock, staking, calc>>

\* end_presale's guard with the timer measured from start_ts
PresaleEndable_FromStart(now) ==
    LET reached_time == now >= presale.start_ts
        reached_target == presale.total_raised >= presale.target_lamports
    IN  reached_time \/ reached_target

\* end_presale's guard: the timer has run out or the target is reached
PresaleEndable(now) ==
    LET reached_time == now >= presale.end_ts
        reached_target == presale.total_raised >= presale.target_lamports
    IN  reached_time \/ reached_target

\* end_presale without its is_active check
EndPresaleErr_NoActiveCheck(signer) ==
    IF ~presale.exists THEN "AccountNotInitialized"
    ELSE IF ~(signer = presale.admin) THEN "Unauthorized"
    ELSE IF ~PresaleEndable(clock) THEN "PresaleNotEnded"
    ELSE "Ok"

EndPresaleErr(signer) ==
    IF ~presale.exists THEN "AccountNotInitialized"
    ELSE IF ~presale.is_active THEN "PresaleNotActive"
    ELSE IF ~(signer = presale.admin) THEN "Unauthorized"
    ELSE IF ~PresaleEndable(clock) THEN "PresaleNotEnded"
    ELSE "Ok"

\* a settlement that takes the storage reserve along
PresaleTransferable_All == presale.lamports

\* lamports end_presale moves: everything above the rent-exempt minimum
PresaleTransferable == SaturatingSub(presale.lamports, PresaleRent)

end_presale(signer) ==
    LET err == EndPresaleErr(signer)
    IN  /\ last' = Call("end_presale", signer, NoKey, PresaleTransferable, TRUE, err)
        /\ IF err = "Ok"
           THEN /\ presale' = [presale EXCEPT
                       !.lamports = @ - PresaleTransferable,
                       !.is_active = FALSE]
                /\ bal' = [bal EXCEPT ![signer] = @ + PresaleTransferable]
                /\ ghost' = [ghost EXCEPT !.ends = @ + 1]
           ELSE UNCHANGED <<presale, bal, ghost>>
        /\ UNCHANGED <<rooms, contrib, registry, clock, staking, calc>>

\* the runtime's clock: read once per instruction, never running backwards
Tick ==
    /\ clock < MaxClock
    /\ clock' = clock + 1
    /\ UNCHANGED <<bal, rooms, presale, contrib, registry, last, ghost, staking, calc>>

-----------------------------------------------------------------------------
(* Registry: marketplace, collections, item-types, minting *)

NoMarketplace == [exists |-> FALSE, admin |-> None, total_collections |-> 0]

NoCollection == [exists |-> FALSE, admin |-> None, royalty |-> 0,
                 is_active |-> FALSE]

NoType == [exists |-> FALSE, price |-> 0, max_supply |-> 0,
           current_supply |-> 0, stake_multiplier |-> 0]

NoRegistry == [marketplace |-> NoMarketplace,
               collections |-> [c \in Collections |-> NoCollection],
               types |-> [k \in TypeKeys |-> NoType]]

\* steps of an instruction that run in the token and metadata programs and
\* may fail there; "none": all of them succeed
ExternalSteps == {"none", "mint_to", "metadata", "verify"}

ExternalErr(failing) == IF failing = "none" THEN "Ok" ELSE "ExternalFailure"

InitializeMarketplaceErr(admin) ==
    IF registry.marketplace.exists THEN "AccountAlreadyInUse"
    ELSE IF bal[admin] < RegistryRent THEN "InsufficientLamports"
    ELSE "Ok"

initialize_marketplace(admin) ==
    LET err == InitializeMarketplaceErr(admin)
    IN  /\ last' = Call("initialize_marketplace", admin, NoKey, 0, TRUE, err)
        /\ IF err = "Ok"
           THEN /\ registry' = [registry EXCEPT !.marketplace =
                       [exists |-> TRUE, admin |-> admin, total_collections |-> 0]]
                /\ bal' = [bal EXCEPT ![admin] = @ - RegistryRent]
           ELSE UNCHANGED <<registry, bal>>
        /\ UNCHANGED <<rooms, presale, contrib, clock, ghost, staking, calc>>

\* royalty values a caller passes: the most the Token Metadata program
\* stores, and one more
Royalties == {10000, 10001}

\* a metadata program that stores any seller_fee_basis_points
CreateMetadataErr_AnyRoyalty(royalty) == "Ok"

\* CreateMetadataAccountV3 in the Token Metadata program, which the handler
\* invokes with seller_fee_basis_points = royalty: the program rejects more
\* than 10000 basis points; the handler itself does not look at royalty
CreateMetadataErr(royalty) ==
    IF royalty > 10000 THEN "InvalidBasisPoints" ELSE "Ok"

\* create_nft_collection: the accounts (marketplace loaded, collection
\* created under its name, payer = admin), then token issuance, metadata and
\* master edition in the token and metadata programs
CreateNftCollectionErr(admin, name, royalty, failing) ==
    IF ~registry.marketplace.exists THEN "AccountNotInitialized"
    ELSE IF registry.collections[name].exists THEN "AccountAlreadyInUse"
    ELSE IF bal[admin] < RegistryRent THEN "InsufficientLamports"
    ELSE IF failing = "mint_to" THEN ExternalErr(failing)
    ELSE IF CreateMetadataErr(royalty) # "Ok" THEN CreateMetadataErr(royalty)
    ELSE ExternalErr(failing)

create_nft_collection(admin, name, royalty, failing) ==
    LET err == CreateNftCollectionErr(admin, name, royalty, failing)
    IN  /\ last' = Call("create_nft_collection", admin, <<name, 0>>, royalty, TRUE, err)
        /\ IF err = "Ok"
           THEN /\ registry' = [registry EXCEPT
                       !.collections[name] =
                           [exists |-> TRUE, admin |-> admin, royalty |-> royalty,
                            is_active |-> TRUE],
                       !.marketplace.total_collections = @ + 1]
                /\ bal' = [bal EXCEPT ![admin] = @ - RegistryRent]
           ELSE UNCHANGED <<registry, bal>>
        /\ UNCHANGED <<rooms, presale, contrib, clock, ghost, staking, calc>>

\* create_nft_type: the accounts (collection loaded, type created under its
\* name, signer constrained to the collection's admin), then the handler
CreateNftTypeErr(signer, key, stake_multiplier) ==
    LET collection == registry.collections[key[1]]
    IN  IF ~collection.exists THEN "AccountNotInitialized"
        ELSE IF registry.types[key].exists THEN "AccountAlreadyInUse"
        ELSE IF bal[signer] < RegistryRent THEN "InsufficientLamports"
        ELSE IF ~(signer = collection.admin) THEN "ConstraintRaw"
        ELSE IF ~collection.is_active THEN "CollectionInactive"
        ELSE IF ~(stake_multiplier > 0) THEN "InvalidStakeMultiplier"
        ELSE "Ok"

create_nft_type(signer, key, price, max_supply, stake_multiplier) ==
    LET err == CreateNftTypeErr(signer, key, stake_multiplier)
    IN  /\ last' = Call("create_nft_type", signer, key, price, TRUE, err)
        /\ IF err = "Ok"
           THEN /\ registry' = [registry EXCEPT !.types[key] =
                       [exists |-> TRUE, price |-> price, max_supply |-> max_supply,
                        current_supply |-> 0, stake_multiplier |-> stake_multiplier]]
                /\ bal' = [bal EXCEPT ![signer] = @ - RegistryRent]
           ELSE UNCHANGED <<registry, bal>>
        /\ UNCHANGED <<rooms, presale, contrib, clock, ghost, staking, calc>>

\* the sold-out check that lets one more item through
SupplyLeft_OffByOne(type) == type.current_supply <= type.max_supply

\* the sold-out check of mint_nft_from_collection
SupplyLeft(type) == type.current_supply < type.max_supply

\* mint_nft_from_collection that asks for the buyer's signature only
MintErr_BuyerOnly(buyer, signers, key, failing) ==
    LET collection == registry.collections[key[1]]
        type == registry.types[key]
    IN  IF ~collection.exists \/ ~type.exists THEN "AccountNotInitialized"
        ELSE IF bal[buyer] < MintRent THEN "InsufficientLamports"
        ELSE IF ~collection.is_active THEN "CollectionInactive"
        ELSE IF ~SupplyLeft(type) THEN "CollectionSoldOut"
        ELSE IF SystemTransferErr(FALSE, bal[buyer] - MintRent, type.price) # "Ok"
             THEN "InsufficientLamports"
        ELSE ExternalErr(failing)

\* mint_nft_from_collection: the accounts (collection and type loaded, the
\* collection admin a Signer, the mint created with payer = buyer), then the
\* handler: active, supply left, payment, issuance, metadata, verification
MintErr(buyer, signers, key, failing) ==
    LET collection == registry.collections[key[1]]
        type == registry.types[key]
    IN  IF ~collection.exists \/ ~type.exists THEN "AccountNotInitialized"
        ELSE IF collection.admin \notin signers THEN "AccountNotSigner"
        ELSE IF bal[buyer] < MintRent THEN "InsufficientLamports"
        ELSE IF ~collection.is_active THEN "CollectionInactive"
        ELSE IF ~SupplyLeft(type) THEN "CollectionSoldOut"
        ELSE IF SystemTransferErr(FALSE, bal[buyer] - MintRent, type.price) # "Ok"
             THEN "InsufficientLamports"
        ELSE ExternalErr(failing)

\* a mint whose payment stays with the admin when a later step fails
mint_nft_from_collection_KeepsPayment(buyer, signers, key, failing) ==
    LET collection == registry.collections[key[1]]
        type == registry.types[key]
        err == MintErr(buyer, signers, key, failing)
    IN  /\ last' = [Call("mint_nft_from_collection", buyer, key, type.price, TRUE, err)
                        EXCEPT !.signers = signers]
        /\ IF err = "Ok"
           THEN /\ bal' = [bal EXCEPT ![buyer] = @ - MintRent - type.price,
                                      ![collection.admin] = @ + type.price]
                /\ registry' = [registry EXCEPT
                       !.types[key].current_supply = @ + 1]
           ELSE IF err = "ExternalFailure"
           THEN /\ bal' = [bal EXCEPT ![buyer] = @ - type.price,
                                      ![collection.admin] = @ + type.price]
                /\ UNCHANGED registry
           ELSE UNCHANGED <<registry, bal>>
        /\ UNCHANGED <<rooms, presale, contrib, clock, ghost, staking, calc>>

mint_nft_from_collection(buyer, signers, key, failing) ==
    LET collection == registry.collections[key[1]]
        type == registry.types[key]
        err == MintErr(buyer, signers, key, failing)
    IN  /\ last' = [Call("mint_nft_from_collection", buyer, key, type.price, TRUE, err)
                        EXCEPT !.signers = signers]
        /\ IF err = "Ok"
           THEN /\ bal' = [bal EXCEPT ![buyer] = @ - MintRent - type.price,
                                      ![collection.admin] = @ + type.price]
                /\ registry' = [registry EXCEPT
                       !.types[key].current_supply = @ + 1]
           ELSE UNCHANGED <<registry, bal>>
        /\ UNCHANGED <<rooms, presale, contrib, clock, ghost, staking, calc>>

-----------------------------------------------------------------------------
(* Staking *)

\* i64::MAX and i64::MIN, at the scaled width
I64Max == U64Max \div 2
I64Min == -I64Max - 1

\* i64::saturating_sub
SaturatingSubI64(a, b) ==
    IF a - b > I64Max THEN I64Max
    ELSE IF a - b < I64Min THEN I64Min
    ELSE a - b

\* `x as u64` of an i64: the same bits read as unsigned
AsU64(x) == IF x < 0 THEN U64Max + 1 + x ELSE x

\* a multiplication that keeps the exact product
SaturatingMul_Unclamped(a, b) == a * b

\* u64::saturating_mul: the product, or u64::MAX when it does not fit
SaturatingMul(a, b) ==
    IF b # 0 /\ a > U64Max \div b THEN U64Max ELSE a * b

\* u64::saturating_div: plain division (an unsigned quotient cannot overflow)
SaturatingDiv(a, b) == a \div b

\* rewards of unstake_nft with the division taken before the multiplier
UnstakeRewards_DivFirst(now, last_claim_timestamp, reward_rate_per_second, stake_multiplier) ==
    LET time_staked == SaturatingSubI64(now, last_claim_timestamp)
        base_rewards == SaturatingMul(AsU64(time_staked), reward_rate_per_second)
    IN  SaturatingMul(SaturatingDiv(base_rewards, 10000), stake_multiplier)

\* `rewards` as unstake_nft computes it
UnstakeRewards(now, last_claim_timestamp, reward_rate_per_second, stake_multiplier) ==
    LET time_staked == SaturatingSubI64(now, last_claim_timestamp)
        base_rewards == SaturatingMul(AsU64(time_staked), reward_rate_per_second)
    IN  SaturatingDiv(SaturatingMul(base_rewards, stake_multiplier), 10000)

\* rewards of claim_rewards counted from time 0 instead of the last claim
ClaimRewards_SinceEpoch(now, last_claim_timestamp, reward_rate_per_second, stake_multiplier) ==
    LET base_rewards == SaturatingMul(AsU64(now), reward_rate_per_second)
    IN  SaturatingDiv(SaturatingMul(base_rewards, stake_multiplier), 10000)

\* rewards of claim_rewards with the division taken before the multiplier
ClaimRewards_DivFirst(now, last_claim_timestamp, reward_rate_per_second, stake_multiplier) ==
    LET time_since_last_claim == SaturatingSubI64(now, last_claim_timestamp)
        base_rewards == SaturatingMul(AsU64(time_since_last_claim),
                                      reward_rate_per_second)
    IN  SaturatingMul(SaturatingDiv(base_rewards, 10000), stake_multiplier)

\* `rewards` as claim_rewards computes it
ClaimRewards(now, last_claim_timestamp, reward_rate_per_second, stake_multiplier) ==
    LET time_since_last_claim == SaturatingSubI64(now, last_claim_timestamp)
        base_rewards == SaturatingMul(AsU64(time_since_last_claim),
                                      reward_rate_per_second)
    IN  SaturatingDiv(SaturatingMul(base_rewards, stake_multiplier), 10000)

(* The reward computation on its own: inputs drawn from small sets *)

\* clock readings and last_claim_timestamp values of the computation
CalcTimes == {0, 1, 2, 5, 10, 15, 20}
CalcLastClaims == {0, 5}
\* reward_rate_per_second values
CalcRates == {0, 1, 100, 4000000}
\* stake_multiplier values, in basis points
CalcMultipliers == {1, 5000, 10000, 20000}

NotComputed == -1

NoCalc == [now |-> 0, last_claim_timestamp |-> 0, reward_rate_per_second |-> 0,
           stake_multiplier |-> 0, claimed |-> NotComputed,
           unstaked |-> NotComputed, earlier_now |-> NotComputed,
           earlier |-> NotComputed]

\* inputs whose exact products stay below MaxExact, so that the model can
\* compare the clamped result with the exact one
ExactlyComputable(now, last_claim_timestamp, rate, multiplier) ==
    LET elapsed == AsU64(now - last_claim_timestamp)
        fits(a, b) == IF b = 0 THEN TRUE ELSE a <= MaxExact \div b
    IN  /\ fits(elapsed, rate)
        /\ fits(IF elapsed * rate > U64Max THEN U64Max ELSE elapsed * rate,
                multiplier)

\* the handler of claim_rewards evaluates `rewards`
ComputeClaim ==
    /\ calc.claimed = NotComputed
    /\ calc' = [calc EXCEPT !.claimed =
                   ClaimRewards(calc.now, calc.last_claim_timestamp,
                                calc.reward_rate_per_second, calc.stake_multiplier)]
    /\ UNCHANGED <<bal, rooms, presale, contrib, registry, clock, last, ghost, staking>>

\* the handler of unstake_nft evaluates `rewards`
ComputeUnstake ==
    /\ calc.unstaked = NotComputed
    /\ calc' = [calc EXCEPT !.unstaked =
                   UnstakeRewards(calc.now, calc.last_claim_timestamp,
                                  calc.reward_rate_per_second, calc.stake_multiplier)]
    /\ UNCHANGED <<bal, rooms, presale, contrib, registry, clock, last, ghost, staking>>

\* the same record, nothing claimed in between, evaluated at a later reading
ComputeLater(t) ==
    /\ calc.claimed # NotComputed
    /\ calc.earlier = NotComputed
    /\ calc.now >= calc.last_claim_timestamp
    /\ t > calc.now
    /\ ExactlyComputable(t, calc.last_claim_timestamp,
                         calc.reward_rate_per_second, calc.stake_multiplier)
    /\ calc' = [calc EXCEPT
                   !.earlier_now = calc.now,
                   !.earlier = calc.claimed,
                   !.now = t,
                   !.claimed = ClaimRewards(t, calc.last_claim_timestamp,
                                   calc.reward_rate_per_second, calc.stake_multiplier),
                   !.unstaked = UnstakeRewards(t, calc.last_claim_timestamp,
                                   calc.reward_rate_per_second, calc.stake_multiplier)]
    /\ UNCHANGED <<bal, rooms, presale, contrib, registry, clock, last, ghost, staking>>

(* The staking accounts *)

\* wallets that stake, NFT mints that exist, and the collection each mint's
\* metadata names (the metadata account is derived from the mint)
StakingUsers == {"alice", "bob"}
Items == {1, 2}
ItemCollection == [i \in Items |-> IF i = 1 THEN "colA" ELSE "colB"]
ItemOwner == [i \in Items |-> IF i = 1 THEN "alice" ELSE "bob"]
StakeKeys == StakingUsers \X Items
\* the stake accounts callers pass: those derived from an item and its owner
OwnKeys == {<<ItemOwner[i], i>> : i \in Items}
\* the wallet that sets up the stake pool
PoolAdmins == {"alice"}
\* the token account of the vault, as the holder of an NFT
Vault == "vault"
\* reward_rate_per_second values initialize_stake_pool is called with
StakeRates == {0, 1}
\* item-types of the staking model: two per collection; every item was
\* minted under the first type of its collection
StakingTypeNames == {1, 2}
StakingTypeKeys == Collections \X StakingTypeNames
ItemType == [i \in Items |-> <<ItemCollection[i], 1>>]
TypeMultiplier == [k \in StakingTypeKeys |-> IF k[2] = 1 THEN 10000 ELSE 15000]

NoPool == [exists |-> FALSE, admin |-> None, reward_rate_per_second |-> 0,
           total_staked |-> 0]

NoStake == [exists |-> FALSE, owner |-> None, nft_mint |-> 0, nft_type |-> NoKey,
            stake_timestamp |-> 0, last_claim_timestamp |-> 0,
            stake_multiplier |-> 0]

\* pool: StakePool; reward_vault: tokens in reward_token_vault; stakes:
\* StakeAccount by (staker, nft_mint); holder: whose token account holds each
\* NFT; vaults: the vault_nft_token_account accounts that exist; rewards and
\* reward_accounts: the stakers' reward token accounts
NoStaking == [pool |-> NoPool, reward_vault |-> 0,
              stakes |-> [k \in StakeKeys |-> NoStake],
              holder |-> ItemOwner,
              vaults |-> [i \in Items |-> FALSE],
              rewards |-> [u \in Users |-> 0],
              reward_accounts |-> [u \in Users |-> FALSE]]

\* initialize_stake_pool: `init` of the pool and of the reward vault
InitializeStakePoolErr(admin) ==
    IF staking.pool.exists THEN "AccountAlreadyInUse"
    ELSE IF bal[admin] < PoolRent THEN "InsufficientLamports"
    ELSE "Ok"

initialize_stake_pool(admin, reward_rate_per_second) ==
    LET err == InitializeStakePoolErr(admin)
    IN  /\ last' = Call("initialize_stake_pool", admin, NoKey,
                        reward_rate_per_second, TRUE, err)
        /\ IF err = "Ok"
           THEN /\ staking' = [staking EXCEPT !.pool =
                       [exists |-> TRUE, admin |-> admin,
                        reward_rate_per_second |-> reward_rate_per_second,
                        total_staked |-> 0]]
                /\ bal' = [bal EXCEPT ![admin] = @ - PoolRent]
           ELSE UNCHANGED <<staking, bal>>
        /\ UNCHANGED <<rooms, presale, contrib, registry, clock, ghost, calc>>

\* a deposit of reward tokens into reward_token_vault: a transfer in the
\* token program, the only way the vault is funded
fund_reward_vault(funder, amount) ==
    /\ staking.pool.exists
    /\ staking.reward_vault + amount <= MaxVault
    /\ last' = Call("fund_reward_vault", funder, NoKey, amount, TRUE, "Ok")
    /\ staking' = [staking EXCEPT !.reward_vault = @ + amount]
    /\ UNCHANGED <<bal, rooms, presale, contrib, registry, clock, ghost, calc>>

\* stake_nft: the accounts in the order of StakeNFT, then the handler
\* stake_nft that takes only the type the item was minted under
StakeNftErr_MintedType(staker, item, collection, type_key) ==
    IF ~staking.pool.exists THEN "AccountNotInitialized"
    ELSE IF staking.stakes[<<staker, item>>].exists THEN "AccountAlreadyInUse"
    ELSE IF bal[staker] < StakeRent THEN "InsufficientLamports"
    ELSE IF ~registry.collections[collection].exists THEN "AccountNotInitialized"
    ELSE IF ~registry.types[type_key].exists THEN "AccountNotInitialized"
    ELSE IF type_key[1] # collection THEN "ConstraintSeeds"
    ELSE IF staking.holder[item] # staker THEN "ConstraintRaw"
    ELSE IF staking.vaults[item] THEN "AccountAlreadyInUse"
    ELSE IF bal[staker] < StakeRent + VaultRent THEN "InsufficientLamports"
    ELSE IF ItemCollection[item] # collection THEN "InvalidNFTMint"
    ELSE IF type_key # ItemType[item] THEN "InvalidNFTMint"
    ELSE "Ok"

\* stake_nft: the accounts in the order of StakeNFT, then the handler; the
\* nft_type account is tied to the collection by its seeds and to nothing
\* of the NFT
StakeNftErr(staker, item, collection, type_key) ==
    IF ~staking.pool.exists THEN "AccountNotInitialized"
    ELSE IF staking.stakes[<<staker, item>>].exists THEN "AccountAlreadyInUse"
    ELSE IF bal[staker] < StakeRent THEN "InsufficientLamports"
    ELSE IF ~registry.collections[collection].exists THEN "AccountNotInitialized"
    ELSE IF ~registry.types[type_key].exists THEN "AccountNotInitialized"
    ELSE IF type_key[1] # collection THEN "ConstraintSeeds"
    ELSE IF staking.holder[item] # staker THEN "ConstraintRaw"
    ELSE IF staking.vaults[item] THEN "AccountAlreadyInUse"
    ELSE IF bal[staker] < StakeRent + VaultRent THEN "InsufficientLamports"
    ELSE IF ItemCollection[item] # collection THEN "InvalidNFTMint"
    ELSE "Ok"

stake_nft(staker, item, collection, type_key) ==
    LET err == StakeNftErr(staker, item, collection, type_key)
    IN  /\ last' = Call("stake_nft", staker, <<staker, item>>, 0, TRUE, err)
        /\ IF err = "Ok"
           THEN /\ staking' = [staking EXCEPT
                       !.stakes[<<staker, item>>] =
                           [exists |-> TRUE, owner |-> staker, nft_mint |-> item,
                            nft_type |-> type_key,
                            stake_timestamp |-> clock,
                            last_claim_timestamp |-> clock,
                            stake_multiplier |->
                                registry.types[type_key].stake_multiplier],
                       !.holder[item] = Vault,
                       !.vaults[item] = TRUE,
                       !.pool.total_staked = @ + 1]
                /\ bal' = [bal EXCEPT ![staker] = @ - StakeRent - VaultRent]
                /\ ghost' = [ghost EXCEPT !.staked[item] = @ + 1,
                                          !.rewarded[<<staker, item>>] = 0]
           ELSE UNCHANGED <<staking, bal, ghost>>
        /\ UNCHANGED <<rooms, presale, contrib, registry, clock, calc>>

\* rent the staker pays when `init_if_needed` creates the reward token account
RewardAccountRentDue(staker) ==
    IF staking.reward_accounts[staker] THEN 0 ELSE RewardAccountRent

\* a reward transfer that never fails
RewardTransferErr_Skips(rewards) == "Ok"

\* the token program's transfer out of reward_token_vault
RewardTransferErr(rewards) ==
    IF rewards > 0 /\ staking.reward_vault < rewards
    THEN "TokenInsufficientFunds" ELSE "Ok"

\* claim_rewards that takes any signer for the owner
ClaimRewardsErr_AnySigner(signer, key) ==
    LET stake_account == staking.stakes[key]
    IN  IF ~staking.pool.exists THEN "AccountNotInitialized"
        ELSE IF ~stake_account.exists THEN "AccountNotInitialized"
        ELSE IF bal[signer] < RewardAccountRentDue(signer) THEN "InsufficientLamports"
        ELSE RewardTransferErr(
                 ClaimRewards(clock, stake_account.last_claim_timestamp,
                              staking.pool.reward_rate_per_second,
                              stake_account.stake_multiplier))

\* claim_rewards: the accounts in the order of ClaimRewards (the stake
\* account's address is derived from the signer), then the handler
ClaimRewardsErr(signer, key) ==
    LET stake_account == staking.stakes[key]
    IN  IF ~staking.pool.exists THEN "AccountNotInitialized"
        ELSE IF ~stake_account.exists THEN "AccountNotInitialized"
        ELSE IF key # <<signer, stake_account.nft_mint>> THEN "ConstraintSeeds"
        ELSE IF bal[signer] < RewardAccountRentDue(signer) THEN "InsufficientLamports"
        ELSE IF ~(stake_account.owner = signer) THEN "Unauthorized"
        ELSE RewardTransferErr(
                 ClaimRewards(clock, stake_account.last_claim_timestamp,
                              staking.pool.reward_rate_per_second,
                              stake_account.stake_multiplier))

\* a claim that never moves last_claim_timestamp
LastClaimAfter_Kept(stake_account, rewards, now) ==
    stake_account.last_claim_timestamp

\* a claim that moves last_claim_timestamp back to the time of the stake
LastClaimAfter_StakeTime(stake_account, rewards, now) ==
    stake_account.stake_timestamp

\* last_claim_timestamp after claim_rewards: set inside `if rewards > 0`
LastClaimAfter(stake_account, rewards, now) ==
    IF rewards > 0 THEN now ELSE stake_account.last_claim_timestamp

claim_rewards(signer, key) ==
    LET stake_account == staking.stakes[key]
        rewards == ClaimRewards(clock, stake_account.last_claim_timestamp,
                                staking.pool.reward_rate_per_second,
                                stake_account.stake_multiplier)
        err == ClaimRewardsErr(signer, key)
    IN  /\ last' = Call("claim_rewards", signer, key,
                        IF stake_account.exists THEN rewards ELSE 0, TRUE, err)
        /\ IF err = "Ok"
           THEN /\ staking' = [staking EXCEPT
                       !.reward_accounts[signer] = TRUE,
                       !.reward_vault = @ - rewards,
                       !.rewards[signer] = @ + rewards,
                       !.stakes[key].last_claim_timestamp =
                           LastClaimAfter(stake_account, rewards, clock)]
                /\ bal' = [bal EXCEPT ![signer] = @ - RewardAccountRentDue(signer)]
                /\ ghost' = [ghost EXCEPT !.rewarded[key] = @ + rewards]
           ELSE UNCHANGED <<staking, bal, ghost>>
        /\ UNCHANGED <<rooms, presale, contrib, registry, clock, calc>>

\* the holder of an NFT gives it to another user (a transfer in the token
\* program, outside this program)
transfer_nft(from, to, item) ==
    /\ staking.holder[item] = from
    /\ to # from
    /\ staking' = [staking EXCEPT !.holder[item] = to]
    /\ last' = Call("transfer_nft", from, <<to, item>>, 0, TRUE, "Ok")
    /\ UNCHANGED <<bal, rooms, presale, contrib, registry, clock, ghost, calc>>

\* unstake_nft: the accounts in the order of UnstakeNFT, then the handler;
\* the stake account is closed to the staker when the handler returns
UnstakeNftErr(signer, key) ==
    LET stake_account == staking.stakes[key]
    IN  IF ~staking.pool.exists THEN "AccountNotInitialized"
        ELSE IF ~stake_account.exists THEN "AccountNotInitialized"
        ELSE IF key # <<signer, stake_account.nft_mint>> THEN "ConstraintSeeds"
        ELSE IF bal[signer] < RewardAccountRentDue(signer) THEN "InsufficientLamports"
        ELSE IF ~staking.vaults[stake_account.nft_mint] THEN "AccountNotInitialized"
        ELSE IF ~(signer = stake_account.owner) THEN "ConstraintRaw"
        ELSE IF RewardTransferErr(
                    UnstakeRewards(clock, stake_account.last_claim_timestamp,
                                   staking.pool.reward_rate_per_second,
                                   stake_account.stake_multiplier)) # "Ok"
             THEN "TokenInsufficientFunds"
        ELSE IF staking.holder[stake_account.nft_mint] # Vault
             THEN "TokenInsufficientFunds"
        ELSE "Ok"

\* unstake_nft that closes the vault token account with the stake account
unstake_nft_ClosesVault(signer, key) ==
    LET stake_account == staking.stakes[key]
        rewards == UnstakeRewards(clock, stake_account.last_claim_timestamp,
                                  staking.pool.reward_rate_per_second,
                                  stake_account.stake_multiplier)
        err == UnstakeNftErr(signer, key)
    IN  /\ last' = Call("unstake_nft", signer, key,
                        IF stake_account.exists THEN rewards ELSE 0, TRUE, err)
        /\ IF err = "Ok"
           THEN /\ staking' = [staking EXCEPT
                       !.reward_accounts[signer] = TRUE,
                       !.reward_vault = @ - rewards,
                       !.rewards[signer] = @ + rewards,
                       !.holder[stake_account.nft_mint] = signer,
                       !.vaults[stake_account.nft_mint] = FALSE,
                       !.pool.total_staked = SaturatingSub(@, 1),
                       !.stakes[key] = NoStake]
                /\ bal' = [bal EXCEPT ![signer] =
                              @ - RewardAccountRentDue(signer) + StakeRent
                                + VaultRent]
                /\ ghost' = [ghost EXCEPT !.rewarded[key] = @ + rewards]
           ELSE UNCHANGED <<staking, bal, ghost>>
        /\ UNCHANGED <<rooms, presale, contrib, registry, clock, calc>>

\* unstake_nft, the handler: reward out, NFT back, stake account closed
unstake_nft(signer, key) ==
    LET stake_account == staking.stakes[key]
        rewards == UnstakeRewards(clock, stake_account.last_claim_timestamp,
                                  staking.pool.reward_rate_per_second,
                                  stake_account.stake_multiplier)
        err == UnstakeNftErr(signer, key)
    IN  /\ last' = Call("unstake_nft", signer, key,
                        IF stake_account.exists THEN rewards ELSE 0, TRUE, err)
        /\ IF err = "Ok"
           THEN /\ staking' = [staking EXCEPT
                       !.reward_accounts[signer] = TRUE,
                       !.reward_vault = @ - rewards,
                       !.rewards[signer] = @ + rewards,
                       !.holder[stake_account.nft_mint] = signer,
                       !.pool.total_staked = SaturatingSub(@, 1),
                       !.stakes[key] = NoStake]
                /\ bal' = [bal EXCEPT ![signer] =
                              @ - RewardAccountRentDue(signer) + StakeRent]
                /\ ghost' = [ghost EXCEPT !.rewarded[key] = @ + rewards]
           ELSE UNCHANGED <<staking, bal, ghost>>
        /\ UNCHANGED <<rooms, presale, contrib, registry, clock, calc>>

-----------------------------------------------------------------------------
(* Specifications *)

\* everything but the staking accounts and the reward computation
InitOthers ==
    /\ bal = [u \in Users |-> InitBal]
    /\ rooms = [k \in RoomKeys |-> NoRoom]
    /\ presale = NoPresale
    /\ contrib = [u \in Users |-> NoContribution]
    /\ registry = NoRegistry
    /\ clock = 0
    /\ last = Call("none", None, NoKey, 0, TRUE, "Ok")
    /\ ghost = [paid |-> [u \in Users |-> 0], restarts |-> 0, ends |-> 0,
                staked |-> [i \in Items |-> 0],
                rewarded |-> [k \in StakeKeys |-> 0]]

Init ==
    /\ InitOthers
    /\ staking = NoStaking
    /\ calc = NoCalc

\* the reward computation, started from any inputs of the small sets
RewardInit ==
    /\ InitOthers
    /\ staking = NoStaking
    /\ \E now \in CalcTimes, last_claim \in CalcLastClaims,
          rate \in CalcRates, multiplier \in CalcMultipliers :
          /\ ExactlyComputable(now, last_claim, rate, multiplier)
          /\ calc = [NoCalc EXCEPT !.now = now,
                                   !.last_claim_timestamp = last_claim,
                                   !.reward_rate_per_second = rate,
                                   !.stake_multiplier = multiplier]

\* staking starts from a registry in which alice has created both
\* collections, each with an item-type of multiplier 10000 and one of
\* multiplier 15000, and one item minted under the first type: item 1 of
\* colA to alice, item 2 of colB to bob
StakingInit ==
    /\ bal = [u \in Users |-> InitBal]
    /\ rooms = [k \in RoomKeys |-> NoRoom]
    /\ presale = NoPresale
    /\ contrib = [u \in Users |-> NoContribution]
    /\ registry =
           [marketplace |-> [exists |-> TRUE, admin |-> "alice",
                             total_collections |-> 2],
            collections |-> [c \in Collections |->
                [exists |-> TRUE, admin |-> "alice", royalty |-> 10000,
                 is_active |-> TRUE]],
            types |-> [k \in StakingTypeKeys |->
                [exists |-> TRUE, price |-> 1, max_supply |-> 1,
                 current_supply |-> IF k[2] = 1 THEN 1 ELSE 0,
                 stake_multiplier |-> TypeMultiplier[k]]]]
    /\ clock = 0
    /\ last = Call("none", None, NoKey, 0, TRUE, "Ok")
    /\ ghost = [paid |-> [u \in Users |-> 0], restarts |-> 0, ends |-> 0,
                staked |-> [i \in Items |-> 0],
                rewarded |-> [k \in StakeKeys |-> 0]]
    /\ staking = NoStaking
    /\ calc = NoCalc

StakingNext ==
    \/ \E u \in PoolAdmins, rate \in StakeRates : initialize_stake_pool(u, rate)
    \/ \E amount \in 1..MaxAmount : fund_reward_vault(staking.pool.admin, amount)
    \/ \E u \in StakingUsers, i \in Items, c \in Collections, k \in StakingTypeKeys :
          stake_nft(u, i, c, k)
    \/ \E u \in StakingUsers, k \in OwnKeys : claim_rewards(u, k)
    \/ \E u \in StakingUsers, k \in OwnKeys : unstake_nft(u, k)
    \/ \E u \in StakingUsers, v \in StakingUsers, i \in Items :
          staking.vaults[i] /\ transfer_nft(u, v, i)
    \/ clock < MaxStakeClock /\ Tick

StakingSpec == StakingInit /\ [][StakingNext]_vars

RewardNext ==
    \/ ComputeClaim
    \/ ComputeUnstake
    \/ \E t \in CalcTimes : ComputeLater(t)

RewardSpec == RewardInit /\ [][RewardNext]_vars

RoomNext ==
    \/ \E c \in Users, id \in RoomIds, stake \in 0..MaxAmount, amount \in 0..1,
          metaColl \in Collections \cup {None}, gateMint \in Collections :
          create_room(c, id, stake, amount, metaColl, gateMint)
    \/ \E c \in Users, k \in RoomKeys, amount \in 0..1,
          metaColl \in Collections \cup {None}, gateMint \in Collections :
          join_room(c, k, amount, metaColl, gateMint)
    \/ \E c \in Users, k \in RoomKeys : resolve_room(c, k)

RoomSpec == Init /\ [][RoomNext]_vars

\* the rooms when every wallet nominates an NFT out of those of HeldCollection
GateNext ==
    \/ \E c \in Users, id \in RoomIds, stake \in 0..MaxAmount, holder \in Users,
          gateMint \in Collections :
          create_room(c, id, stake, TokenAmount(c, holder),
                      HeldCollection[holder], gateMint)
    \/ \E c \in Users, k \in RoomKeys, holder \in Users, gateMint \in Collections :
          join_room(c, k, TokenAmount(c, holder), HeldCollection[holder], gateMint)
    \/ \E c \in Users, k \in RoomKeys : resolve_room(c, k)

GateSpec == Init /\ [][GateNext]_vars

PresaleNext ==
    \/ \E u \in PresaleUsers : initialize_presale(u)
    \/ \E u \in PresaleUsers : ghost.restarts < MaxRestarts /\ restart_presale(u)
    \/ \E u \in PresaleUsers, lamports \in 0..MaxAmount : contribute_presale(u, lamports)
    \/ \E u \in PresaleUsers : end_presale(u)
    \/ Tick

PresaleSpec == Init /\ [][PresaleNext]_vars

RegistryNext ==
    \/ \E u \in RegistryUsers : initialize_marketplace(u)
    \/ \E u \in RegistryUsers, c \in Collections, royalty \in Royalties,
          failing \in ExternalSteps :
          create_nft_collection(u, c, royalty, failing)
    \/ \E u \in RegistryUsers, k \in TypeKeys, price \in 1..MaxAmount,
          max_supply \in 0..MaxSupply, m \in Multipliers :
          create_nft_type(u, k, price, max_supply, m)
    \/ \E u \in RegistryUsers, others \in SUBSET RegistryUsers, k \in TypeKeys,
          failing \in ExternalSteps :
          mint_nft_from_collection(u, {u} \cup others, k, failing)

RegistrySpec == Init /\ [][RegistryNext]_vars

-----------------------------------------------------------------------------
(* Claims about the escrow rooms, checked under RoomSpec *)

\* lamports a room holds above its storage reserve
RoomHeld(room) == room.lamports - RoomRent

\* the step is a call of `op` on a room that exists when the call is made
RoomCall(op) == last'.op = op /\ rooms[last'.key].exists

\* the step is resolve_room, signed by the creator, on a room that is Ongoing
ResolveByCreatorOfOngoing ==
    /\ RoomCall("resolve_room")
    /\ rooms[last'.key].status = Ongoing
    /\ last'.caller = rooms[last'.key].creator

\* the step leaves every room and every wallet as it was
RoomsAndWalletsKept == rooms' = rooms /\ bal' = bal

\* C1: a room holds exactly stake_lamports above its reserve while Waiting and
\* exactly 2 * stake_lamports while Ongoing, and it holds 0 right after
\* resolve_room (signed by the creator, on an Ongoing room) has run.
C1_EscrowBalance ==
    [][ /\ \A k \in RoomKeys : rooms'[k].exists =>
              /\ rooms'[k].status = Waiting =>
                     RoomHeld(rooms'[k]) = rooms'[k].stake_lamports
              /\ rooms'[k].status = Ongoing =>
                     RoomHeld(rooms'[k]) = 2 * rooms'[k].stake_lamports
        /\ ResolveByCreatorOfOngoing => rooms'[last'.key].lamports = 0 ]_vars

\* C5: resolve_room (signed by the creator, on an Ongoing room) raises the
\* creator's balance by exactly transferable = lamports - reserve, pays the
\* challenger nothing and leaves no room behind.
C5_ResolvePaysCreator ==
    [][ ResolveByCreatorOfOngoing =>
          LET room == rooms[last'.key]
          IN  /\ bal'[room.creator] = bal[room.creator] + RoomTransferable(room)
              /\ bal'[room.challenger] = bal[room.challenger]
              /\ ~rooms'[last'.key].exists ]_vars

\* C6: a room only moves forward along Waiting -> Ongoing -> Closed: it is
\* created Waiting, only join_room changes a Waiting room (to Ongoing), only
\* resolve_room changes an Ongoing room, and resolve_room terminates and
\* removes it; no step takes a room back to an earlier status.
C6_RoomLifeCycle ==
    [][ \A k \in RoomKeys :
          /\ (~rooms[k].exists /\ rooms'[k].exists) =>
                 last'.op = "create_room" /\ rooms'[k].status = Waiting
          /\ (rooms[k].exists /\ rooms[k].status = Waiting /\ rooms'[k] # rooms[k]) =>
                 /\ last'.op = "join_room"
                 /\ rooms'[k].exists /\ rooms'[k].status = Ongoing
          /\ (rooms[k].exists /\ rooms[k].status = Ongoing /\ rooms'[k] # rooms[k]) =>
                 last'.op = "resolve_room" /\ ~rooms'[k].exists
          /\ (ResolveByCreatorOfOngoing /\ last'.key = k) => ~rooms'[k].exists ]_vars

\* C7 as stated: join_room signed by the room's creator fails with
\* Unauthorized; join_room on a room that is not Waiting or has a challenger
\* fails with RoomNotWaiting or RoomHasChallenger; such a failure changes no
\* room and no balance.
C7_JoinErrors_AsStated ==
    [][ RoomCall("join_room") =>
          LET room == rooms[last'.key]
          IN  /\ last'.caller = room.creator =>
                     last'.err = "Unauthorized" /\ RoomsAndWalletsKept
              /\ (room.status # Waiting \/ room.challenger # None) =>
                     /\ last'.err \in {"RoomNotWaiting", "RoomHasChallenger"}
                     /\ RoomsAndWalletsKept ]_vars

\* C7 amended: join_room signed by the creator fails with Unauthorized when
\* the room is Waiting with no challenger; on a room that is not Waiting or
\* has a challenger it fails with RoomNotWaiting or RoomHasChallenger whoever
\* signs, the creator included; every such failure changes no room and no
\* balance.
C7_JoinErrors ==
    [][ RoomCall("join_room") =>
          LET room == rooms[last'.key]
          IN  /\ (last'.caller = room.creator /\ room.status = Waiting
                    /\ room.challenger = None) =>
                     last'.err = "Unauthorized" /\ RoomsAndWalletsKept
              /\ (room.status # Waiting \/ room.challenger # None) =>
                     /\ last'.err \in {"RoomNotWaiting", "RoomHasChallenger"}
                     /\ RoomsAndWalletsKept ]_vars

\* the creator has tried to join the own Waiting room and was turned away
C7_Witness ==
    /\ last.op = "join_room" /\ last.err = "Unauthorized"
    /\ rooms[last.key].exists /\ rooms[last.key].status = Waiting
    /\ last.caller = rooms[last.key].creator
    /\ last.nftOK /\ bal[last.caller] >= rooms[last.key].stake_lamports

\* C8 as stated: resolve_room on a room that is not Ongoing fails with
\* RoomNotOngoing; it fails for every signer other than the creator; a failure
\* moves no funds and keeps the room and its status.
C8_ResolveErrors_AsStated ==
    [][ RoomCall("resolve_room") =>
          LET room == rooms[last'.key]
          IN  /\ room.status # Ongoing => last'.err = "RoomNotOngoing"
              /\ last'.caller # room.creator => last'.err # "Ok"
              /\ last'.err # "Ok" => RoomsAndWalletsKept ]_vars

\* C8 amended: resolve_room signed by the creator on a room that is not
\* Ongoing fails with RoomNotOngoing; signed by anyone else, the challenger
\* included, it fails whatever the status (with ConstraintSeeds, before the
\* status is looked at); a failure moves no funds and keeps the room and its
\* status.
C8_ResolveErrors ==
    [][ RoomCall("resolve_room") =>
          LET room == rooms[last'.key]
          IN  /\ (room.status # Ongoing /\ last'.caller = room.creator) =>
                     last'.err = "RoomNotOngoing"
              /\ last'.caller # room.creator => last'.err = "ConstraintSeeds"
              /\ last'.err # "Ok" => RoomsAndWalletsKept ]_vars

\* the challenger of an Ongoing room has called resolve_room and was refused,
\* the room still holding both stakes
C8_Witness ==
    /\ last.op = "resolve_room" /\ last.err = "ConstraintSeeds"
    /\ rooms[last.key].exists /\ rooms[last.key].status = Ongoing
    /\ last.caller = rooms[last.key].challenger
    /\ RoomHeld(rooms[last.key]) = 2 * rooms[last.key].stake_lamports

\* C9: of two join_room calls on the same Waiting room by distinct, qualified
\* and funded wallets other than the creator, the one that runs first succeeds
\* and becomes the challenger, the other one fails with RoomNotWaiting and
\* deposits nothing; the room never holds more than 2 * stake_lamports above
\* its reserve.
C9_OneJoinerWins ==
    [][ RoomCall("join_room") =>
          LET room == rooms[last'.key]
              qualified == /\ last'.caller # room.creator
                           /\ last'.nftOK
                           /\ bal[last'.caller] >= room.stake_lamports
          IN  /\ (qualified /\ room.status = Waiting) =>
                     /\ last'.err = "Ok"
                     /\ rooms'[last'.key].challenger = last'.caller
                     /\ rooms'[last'.key].status = Ongoing
              /\ (qualified /\ room.status # Waiting) =>
                     last'.err = "RoomNotWaiting" /\ RoomsAndWalletsKept
              /\ RoomHeld(rooms'[last'.key]) <= 2 * room.stake_lamports ]_vars

\* a second qualified and funded wallet has tried to join after the first
C9_Witness ==
    /\ last.op = "join_room" /\ last.err = "RoomNotWaiting"
    /\ rooms[last.key].exists /\ rooms[last.key].status = Ongoing
    /\ last.caller \notin {rooms[last.key].creator, rooms[last.key].challenger}
    /\ last.nftOK /\ bal[last.caller] >= rooms[last.key].stake_lamports
    /\ RoomHeld(rooms[last.key]) = 2 * rooms[last.key].stake_lamports

\* C28: a room's challenger is unset exactly while its status is Waiting:
\* unset in every Waiting room, and set to the joiner, who is not the
\* creator, in every Ongoing room.
C28_ChallengerIffJoined ==
    \A k \in RoomKeys : rooms[k].exists =>
        /\ rooms[k].challenger = None <=> rooms[k].status = Waiting
        /\ rooms[k].status = Ongoing =>
               /\ rooms[k].challenger \in Users
               /\ rooms[k].challenger # rooms[k].creator
        /\ (last.op = "join_room" /\ last.err = "Ok" /\ last.key = k) =>
               rooms[k].challenger = last.caller

\* one room waits without a challenger while another has been joined
C28_Witness ==
    \E k1, k2 \in RoomKeys :
        /\ rooms[k1].exists /\ rooms[k1].status = Waiting
        /\ rooms[k1].challenger = None
        /\ rooms[k2].exists /\ rooms[k2].status = Ongoing
        /\ rooms[k2].challenger \in Users \ {rooms[k2].creator}

\* C33: nothing lets the creator take the stake back out of a Waiting room:
\* resolve_room by the creator on a Waiting room fails with RoomNotOngoing,
\* resolve_room by anybody fails and changes nothing, and no instruction but
\* a join_room by another wallet changes a Waiting room; until then the room
\* stays Waiting and holds the creator's stake.
C33_WaitingStakeLocked ==
    [][ \A k \in RoomKeys : (rooms[k].exists /\ rooms[k].status = Waiting) =>
          /\ (last'.op = "resolve_room" /\ last'.key = k) =>
                 /\ last'.err # "Ok"
                 /\ last'.caller = rooms[k].creator => last'.err = "RoomNotOngoing"
                 /\ RoomsAndWalletsKept
          /\ rooms'[k] # rooms[k] =>
                 /\ last'.op = "join_room" /\ last'.err = "Ok" /\ last'.key = k
                 /\ last'.caller # rooms[k].creator
                 /\ rooms'[k].status = Ongoing
          /\ RoomHeld(rooms[k]) = rooms[k].stake_lamports
          /\ rooms[k].stake_lamports > 0
          /\ bal'[rooms[k].creator] <= bal[rooms[k].creator] ]_vars

\* the creator has tried resolve_room on the own Waiting room, which still
\* holds the stake
C33_Witness ==
    /\ last.op = "resolve_room" /\ last.err = "RoomNotOngoing"
    /\ rooms[last.key].exists /\ rooms[last.key].status = Waiting
    /\ last.caller = rooms[last.key].creator
    /\ rooms[last.key].challenger = None
    /\ RoomHeld(rooms[last.key]) = rooms[last.key].stake_lamports
    /\ rooms[last.key].stake_lamports > 0

\* C32: create_room and join_room compare the collection of the nominated
\* NFT only with the collection mint passed in the same call, and the room
\* stores no collection: an NFT that references any collection passes, one
\* that references none does not, and the two parties of an Ongoing room may
\* have passed with NFTs of different collections.
C32_GatePerCall ==
    [][ /\ \A k \in RoomKeys : DOMAIN rooms'[k] = DOMAIN NoRoom
        /\ "collection" \notin DOMAIN NoRoom
        /\ \A k \in RoomKeys, c \in Users :
               ( /\ rooms[k].exists /\ rooms[k].status = Waiting
                 /\ c # rooms[k].creator
                 /\ bal[c] >= rooms[k].stake_lamports ) =>
                   JoinRoomErr(c, k, 1, HeldCollection[c], HeldCollection[c]) =
                       IF HeldCollection[c] = None THEN "Unauthorized" ELSE "Ok"
        /\ \A c \in Users, id \in RoomIds :
               (~rooms[<<c, id>>].exists /\ bal[c] >= RoomRent + 1) =>
                   CreateRoomErr(c, id, 1, 1, HeldCollection[c], HeldCollection[c]) =
                       IF HeldCollection[c] = None THEN "Unauthorized" ELSE "Ok"
        /\ (last'.op \in {"create_room", "join_room"} /\ last'.err = "Ok") =>
               /\ last'.nftOK
               /\ HeldCollection[last'.caller] # None ]_vars

\* an Ongoing room whose creator holds an NFT of one collection and whose
\* challenger, who has just joined, holds an NFT of another
C32_Witness ==
    /\ last.op = "join_room" /\ last.err = "Ok"
    /\ rooms[last.key].status = Ongoing
    /\ rooms[last.key].challenger = last.caller
    /\ HeldCollection[rooms[last.key].creator] \in Collections
    /\ HeldCollection[last.caller] \in Collections
    /\ HeldCollection[rooms[last.key].creator] # HeldCollection[last.caller]

-----------------------------------------------------------------------------
(* Claims about the presale campaign, checked under PresaleSpec *)

RECURSIVE SumOver(_, _)
\* the sum of f over the wallets in S
SumOver(f, S) ==
    IF S = {} THEN 0
    ELSE LET u == CHOOSE x \in S : TRUE IN f[u] + SumOver(f, S \ {u})

\* lamports the presale holds above its storage reserve
PresaleHeld == presale.lamports - PresaleRent

\* C2: as long as the campaign set up by initialize_presale has not been
\* restarted, total_raised is the sum of all amounts contributed and every
\* contribution record holds the sum of its contributor's own amounts.
C2_ContributionSums ==
    (presale.exists /\ ghost.restarts = 0) =>
        /\ presale.total_raised = SumOver(ghost.paid, Users)
        /\ \A u \in Users : contrib[u].amount = ghost.paid[u]
        /\ \A u \in Users : contrib[u].exists <=> ghost.paid[u] > 0

\* two wallets have contributed, one of them in several calls
C2_Witness ==
    /\ presale.exists /\ ghost.restarts = 0
    /\ \E u, v \in Users :
          /\ u # v
          /\ contrib[u].amount > MaxAmount
          /\ contrib[v].amount > 0
          /\ presale.total_raised = contrib[u].amount + contrib[v].amount

\* the step is end_presale called while neither the timer has run out nor the
\* target is reached
EarlyEndCall ==
    /\ last'.op = "end_presale" /\ clock' = clock
    /\ presale.exists
    /\ clock < presale.end_ts
    /\ presale.total_raised < presale.target_lamports

\* C4 as stated: end_presale called while now < end_ts and total_raised <
\* target fails with PresaleNotEnded and leaves the presale's balance, the
\* admin's balance and the active flag as they were.
C4_NoEarlyEnd_AsStated ==
    [][ EarlyEndCall =>
          /\ last'.err = "PresaleNotEnded"
          /\ presale' = presale /\ bal' = bal ]_vars

\* C4 amended: end_presale called while now < end_ts and total_raised <
\* target never succeeds and leaves the presale's balance, the admin's balance
\* and the active flag as they were; it fails with PresaleNotEnded when the
\* admin signs and with Unauthorized when anyone else does.
C4_NoEarlyEnd ==
    [][ EarlyEndCall =>
          /\ last'.err = IF last'.caller = presale.admin
                         THEN "PresaleNotEnded" ELSE "Unauthorized"
          /\ presale' = presale /\ bal' = bal ]_vars

\* the admin has tried to end a funded campaign early and was refused
C4_Witness ==
    /\ last.op = "end_presale" /\ last.err = "PresaleNotEnded"
    /\ last.caller = presale.admin
    /\ presale.is_active /\ clock < presale.end_ts
    /\ presale.total_raised > 0 /\ presale.total_raised < presale.target_lamports
    /\ PresaleHeld > 0

\* C10: whenever the campaign is active, the lamports it holds above its
\* storage reserve equal total_raised.
C10_HeldEqualsRaised ==
    (presale.exists /\ presale.is_active) => PresaleHeld = presale.total_raised

\* the step is a call of `op` (the clock stands still) on the presale
\* account, which exists
PresaleCall(op) == last'.op = op /\ clock' = clock /\ presale.exists

\* the step leaves the campaign, every record and every wallet as it was
PresaleKept == presale' = presale /\ contrib' = contrib /\ bal' = bal

\* C11: while the campaign is active, total_raised never decreases from one
\* state to the next, whichever instruction runs (contribute_presale,
\* restart_presale, end_presale).
C11_TotalRaisedMonotone ==
    [][ (presale.exists /\ presale.is_active) =>
            presale'.total_raised >= presale.total_raised ]_vars

\* C12: on an active campaign whose end_ts has come or whose target is
\* reached, end_presale signed by the admin succeeds: the admin's wallet
\* grows by exactly the lamports held above the rent-exempt minimum, the
\* presale account keeps exactly that minimum and is_active becomes false.
C12_EndPaysAdmin ==
    [][ ( /\ PresaleCall("end_presale")
          /\ presale.is_active
          /\ last'.caller = presale.admin
          /\ \/ clock >= presale.end_ts
             \/ presale.total_raised >= presale.target_lamports ) =>
            /\ last'.err = "Ok"
            /\ bal' = [bal EXCEPT ![presale.admin] =
                          @ + (presale.lamports - PresaleRent)]
            /\ presale'.lamports = PresaleRent
            /\ ~presale'.is_active ]_vars

\* an end_presale has moved contributed lamports to the admin
C12_Witness ==
    /\ last.op = "end_presale" /\ last.err = "Ok"
    /\ last.amount > 0
    /\ presale.lamports = PresaleRent /\ ~presale.is_active
    /\ bal[presale.admin] > InitBal - PresaleRent

\* C13, as stated: once an end_presale has succeeded, every later
\* end_presale fails with PresaleNotActive and moves no funds, so that
\* end_presale succeeds once only.
C13_EndOnce_AsStated ==
    [][ /\ (PresaleCall("end_presale") /\ ghost.ends > 0) =>
               /\ last'.err = "PresaleNotActive"
               /\ PresaleKept
        /\ ghost'.ends <= 1 ]_vars

\* C13: once an end_presale has succeeded and as long as restart_presale has
\* not set is_active again, every end_presale fails with PresaleNotActive and
\* moves no funds; end_presale succeeds on an active campaign only and leaves
\* it inactive, hence at most once per initialize_presale or restart_presale.
C13_EndOnce ==
    [][ /\ (PresaleCall("end_presale") /\ ghost.ends > 0 /\ ~presale.is_active) =>
               /\ last'.err = "PresaleNotActive"
               /\ PresaleKept
        /\ (PresaleCall("end_presale") /\ last'.err = "Ok") =>
               presale.is_active /\ ~presale'.is_active
        /\ ghost'.ends <= ghost'.restarts + 1 ]_vars

\* the admin has tried to end an ended campaign again, the timer run out
C13_Witness ==
    /\ last.op = "end_presale" /\ last.err = "PresaleNotActive"
    /\ last.caller = presale.admin
    /\ ghost.ends = 1 /\ ghost.restarts = 0
    /\ clock >= presale.end_ts

\* C14: restart_presale and end_presale signed by anyone but presale.admin
\* fail and leave start_ts, end_ts, total_raised, target_lamports, admin,
\* is_active and every balance as they were; admin and target_lamports never
\* change once initialize_presale has set them.
C14_AdminOnly ==
    [][ /\ ( /\ \/ PresaleCall("restart_presale")
                \/ PresaleCall("end_presale")
             /\ last'.caller # presale.admin ) =>
               /\ last'.err # "Ok"
               /\ PresaleKept
        /\ presale.exists =>
               /\ presale'.exists
               /\ presale'.admin = presale.admin
               /\ presale'.target_lamports = presale.target_lamports ]_vars

\* a restart_presale by somebody else has been refused on a campaign that
\* holds contributions
C14_Witness ==
    /\ last.op = "restart_presale" /\ last.err = "Unauthorized"
    /\ presale.exists /\ last.caller # presale.admin
    /\ presale.total_raised > 0

\* C15, as stated: contribute_presale fails, moving nothing, with
\* InsufficientFunds when lamports = 0, with PresaleNotActive when the
\* campaign is not active and with PresaleEnded when now > end_ts; on an
\* active campaign with lamports > 0 and now <= end_ts it succeeds and moves
\* exactly lamports from the contributor to the presale account.
C15_ContributeErrors_AsStated ==
    [][ PresaleCall("contribute_presale") =>
            /\ last'.amount = 0 =>
                   last'.err = "InsufficientFunds" /\ PresaleKept
            /\ ~presale.is_active =>
                   last'.err = "PresaleNotActive" /\ PresaleKept
            /\ clock > presale.end_ts =>
                   last'.err = "PresaleEnded" /\ PresaleKept
            /\ (presale.is_active /\ last'.amount > 0 /\ clock <= presale.end_ts) =>
                   /\ last'.err = "Ok"
                   /\ presale'.lamports = presale.lamports + last'.amount
                   /\ bal' = [bal EXCEPT ![last'.caller] = @ - last'.amount] ]_vars

\* C15: a failing contribute_presale moves nothing and changes no record.
\* For a contributor who can pay the rent of a contribution record still to
\* be created, the checks run in this order: lamports = 0 fails with
\* InsufficientFunds, else an inactive campaign with PresaleNotActive, else
\* now > end_ts with PresaleEnded.  On an active campaign with lamports > 0
\* and now <= end_ts (now = end_ts included) the call succeeds when the
\* contributor holds lamports plus that rent, and then moves exactly
\* lamports from the contributor to the presale account; when the
\* contributor holds less the call fails.
C15_ContributeErrors ==
    [][ PresaleCall("contribute_presale") =>
            LET contributor == last'.caller
                lamports == last'.amount
                rentDue == IF contrib[contributor].exists THEN 0 ELSE ContribRent
                open == /\ presale.is_active /\ lamports > 0
                        /\ clock <= presale.end_ts
            IN  /\ last'.err # "Ok" => PresaleKept
                /\ bal[contributor] >= rentDue =>
                       /\ lamports = 0 => last'.err = "InsufficientFunds"
                       /\ (lamports > 0 /\ ~presale.is_active) =>
                              last'.err = "PresaleNotActive"
                       /\ (lamports > 0 /\ presale.is_active
                             /\ clock > presale.end_ts) =>
                              last'.err = "PresaleEnded"
                /\ (open /\ bal[contributor] >= rentDue + lamports) =>
                       /\ last'.err = "Ok"
                       /\ presale'.lamports = presale.lamports + lamports
                       /\ bal' = [bal EXCEPT ![contributor] = @ - lamports - rentDue]
                /\ (open /\ bal[contributor] < rentDue + lamports) =>
                       last'.err # "Ok" ]_vars

\* a contribution made at end_ts itself has gone through
C15_Witness ==
    /\ last.op = "contribute_presale" /\ last.err = "Ok"
    /\ last.amount > 0
    /\ clock = presale.end_ts /\ presale.is_active
    /\ presale.total_raised >= last.amount

-----------------------------------------------------------------------------
(* Claims about the registry, checked under RegistrySpec *)

\* the step is mint_nft_from_collection on an item-type that exists
MintCall ==
    /\ last'.op = "mint_nft_from_collection"
    /\ registry.types[last'.key].exists

\* C3: while current_supply < max_supply a mint that passes the account
\* checks, can pay and meets no failure in the token and metadata programs
\* succeeds and raises current_supply by exactly 1; at current_supply =
\* max_supply every mint fails and leaves current_supply as it was, with
\* CollectionSoldOut once the account checks pass; current_supply never
\* exceeds max_supply and never decreases.
C3_SupplyCap ==
    [][ /\ MintCall =>
              LET type == registry.types[last'.key]
                  newType == registry'.types[last'.key]
                  admin == registry.collections[last'.key[1]].admin
                  admitted == /\ admin \in last'.signers
                              /\ bal[last'.caller] >= MintRent
              IN  /\ last'.err = "Ok" =>
                         /\ type.current_supply < type.max_supply
                         /\ newType.current_supply = type.current_supply + 1
                  /\ last'.err # "Ok" => newType = type
                  /\ (admitted /\ type.current_supply < type.max_supply
                        /\ bal[last'.caller] >= MintRent + type.price) =>
                         last'.err \in {"Ok", "ExternalFailure"}
                  /\ type.current_supply >= type.max_supply => last'.err # "Ok"
                  /\ (admitted /\ type.current_supply >= type.max_supply) =>
                         last'.err = "CollectionSoldOut"
        /\ \A k \in TypeKeys :
              /\ registry'.types[k].current_supply <= registry'.types[k].max_supply
              /\ registry.types[k].exists =>
                     /\ registry'.types[k].current_supply >= registry.types[k].current_supply
                     /\ registry'.types[k].max_supply = registry.types[k].max_supply
      ]_vars

\* an item-type of max_supply 2 is sold out after two mints and a further
\* mint, signed by buyer and admin and funded, has failed with CollectionSoldOut
C3_Witness ==
    /\ last.op = "mint_nft_from_collection" /\ last.err = "CollectionSoldOut"
    /\ registry.types[last.key].max_supply = MaxSupply
    /\ registry.types[last.key].current_supply = MaxSupply
    /\ registry.collections[last.key[1]].admin \in last.signers
    /\ registry.collections[last.key[1]].admin # last.caller
    /\ bal[last.caller] >= MintRent + registry.types[last.key].price

\* C16: a mint_nft_from_collection that fails at any step (payment, mint_to,
\* metadata, verification) leaves current_supply and the wallets of buyer and
\* admin as they were; one that succeeds moves exactly the item-type's price
\* from the buyer to the collection admin (the buyer also funds the rent of
\* the accounts the mint creates).
C16_MintAtomic ==
    [][ MintCall =>
            LET type == registry.types[last'.key]
                admin == registry.collections[last'.key[1]].admin
                buyer == last'.caller
            IN  /\ last'.err # "Ok" => registry' = registry /\ bal' = bal
                /\ last'.err = "Ok" =>
                       /\ registry'.types[last'.key].current_supply =
                              type.current_supply + 1
                       /\ bal' = [bal EXCEPT ![buyer] = @ - MintRent - type.price,
                                             ![admin] = @ + type.price] ]_vars

\* a mint has failed in the token or metadata program after a payment that
\* the buyer, who is not the admin, could make
C16_Witness ==
    /\ last.op = "mint_nft_from_collection" /\ last.err = "ExternalFailure"
    /\ registry.types[last.key].exists
    /\ registry.collections[last.key[1]].admin # last.caller
    /\ registry.types[last.key].price > 0
    /\ bal[last.caller] >= MintRent + registry.types[last.key].price

\* the collections that exist
CollectionsCreated == {c \in Collections : registry.collections[c].exists}

\* C25: create_nft_collection signed by anyone but marketplace.admin fails,
\* creates no collection and leaves total_collections as it was; so every
\* collection's admin is marketplace.admin and total_collections is the
\* number of collections.
C25_AdminCreatesCollections ==
    [][ /\ ( /\ last'.op = "create_nft_collection"
             /\ registry.marketplace.exists
             /\ last'.caller # registry.marketplace.admin ) =>
               /\ last'.err # "Ok"
               /\ registry' = registry
        /\ \A c \in Collections : registry'.collections[c].exists =>
               registry'.collections[c].admin = registry'.marketplace.admin
        /\ registry'.marketplace.total_collections =
               Cardinality({c \in Collections : registry'.collections[c].exists})
      ]_vars

\* a mint signed by the buyer alone, for an active collection with supply
\* left, by a buyer who can pay the price and the rent of the new accounts
BuyerAloneMint ==
    /\ MintCall
    /\ last'.signers = {last'.caller}
    /\ registry.collections[last'.key[1]].is_active
    /\ registry.types[last'.key].current_supply < registry.types[last'.key].max_supply
    /\ bal[last'.caller] >= MintRent + registry.types[last'.key].price

\* C26, as stated: for an active collection, an item-type with supply left
\* and a buyer able to pay, mint_nft_from_collection signed by the buyer
\* alone succeeds (unless the token or metadata program fails).
C26_BuyerSigns_AsStated ==
    [][ BuyerAloneMint => last'.err \in {"Ok", "ExternalFailure"} ]_vars

\* C26: mint_nft_from_collection needs the signatures of the buyer and of
\* the collection's admin: under the same conditions a mint signed by a
\* buyer who is not the admin fails with nothing changed, and a mint also
\* signed by the admin succeeds (unless the token or metadata program fails).
C26_BuyerSigns ==
    [][ /\ ( /\ BuyerAloneMint
             /\ last'.caller # registry.collections[last'.key[1]].admin ) =>
               /\ last'.err = "AccountNotSigner"
               /\ registry' = registry /\ bal' = bal
        /\ ( /\ MintCall
             /\ registry.collections[last'.key[1]].admin \in last'.signers
             /\ registry.collections[last'.key[1]].is_active
             /\ registry.types[last'.key].current_supply
                    < registry.types[last'.key].max_supply
             /\ bal[last'.caller] >= MintRent + registry.types[last'.key].price ) =>
               last'.err \in {"Ok", "ExternalFailure"}
        /\ (MintCall /\ last'.err = "Ok") =>
               registry.collections[last'.key[1]].admin \in last'.signers ]_vars

\* a buyer who is not the admin was refused alone, able to pay, supply left
C26_Witness ==
    /\ last.op = "mint_nft_from_collection" /\ last.err = "AccountNotSigner"
    /\ last.signers = {last.caller}
    /\ registry.types[last.key].exists
    /\ registry.collections[last.key[1]].is_active
    /\ registry.types[last.key].current_supply < registry.types[last.key].max_supply
    /\ bal[last.caller] >= MintRent + registry.types[last.key].price

-----------------------------------------------------------------------------
(* Claims about the reward computation, checked under RewardSpec *)

\* the smaller of two numbers
Min(a, b) == IF a <= b THEN a ELSE b

\* seconds between last_claim_timestamp and the clock reading
CalcElapsed == calc.now - calc.last_claim_timestamp

\* the reward in exact arithmetic, clamped at u64::MAX after each product
ClampedReward(elapsed, rate, multiplier) ==
    Min(Min(elapsed * rate, U64Max) * multiplier, U64Max) \div 10000

\* C17: for every elapsed >= 0, rate and multiplier, claim_rewards and
\* unstake_nft compute the same reward, ((elapsed * rate clamped at u64::MAX)
\* * multiplier clamped at u64::MAX) div 10000, which never wraps; rate 100,
\* multiplier 20000 and elapsed 10 give exactly 2000.
C17_RewardFormula ==
    CalcElapsed >= 0 =>
        LET expected == ClampedReward(CalcElapsed, calc.reward_rate_per_second,
                                      calc.stake_multiplier)
        IN  /\ calc.claimed # NotComputed => calc.claimed = expected
            /\ calc.unstaked # NotComputed => calc.unstaked = expected
            /\ ( /\ calc.reward_rate_per_second = 100
                 /\ calc.stake_multiplier = 20000
                 /\ CalcElapsed = 10
                 /\ calc.claimed # NotComputed ) => calc.claimed = 2000

\* both handlers have computed 2000 for rate 100, multiplier 20000, elapsed 10
C17_Witness ==
    /\ calc.reward_rate_per_second = 100 /\ calc.stake_multiplier = 20000
    /\ CalcElapsed = 10
    /\ calc.claimed = 2000 /\ calc.unstaked = 2000

\* the reward at a later reading minus the reward at the earlier one, and
\* the exact accrual rate * multiplier * (t2 - t1), both in units of 1/10000
AccruedBetween == 10000 * (calc.claimed - calc.earlier)
ExactBetween ==
    calc.reward_rate_per_second * calc.stake_multiplier
        * (calc.now - calc.earlier_now)

\* C18, as stated: for fixed rate and multiplier and readings t1 < t2 with no
\* claim in between, reward(t2) - reward(t1) is rate * multiplier * (t2 - t1)
\* / 10000 up to the rounding of the two floors, and the reward never
\* decreases as time passes.
C18_LinearAccrual_AsStated ==
    calc.earlier # NotComputed =>
        /\ calc.claimed >= calc.earlier
        /\ AccruedBetween > ExactBetween - 10000
        /\ AccruedBetween < ExactBetween + 10000

\* C18: the reward never decreases as time passes; as long as neither
\* product is clamped at t2 (elapsed * rate * multiplier <= u64::MAX),
\* reward(t2) - reward(t1) is rate * multiplier * (t2 - t1) / 10000 up to the
\* rounding of the two floors.
C18_LinearAccrual ==
    calc.earlier # NotComputed =>
        /\ calc.claimed >= calc.earlier
        /\ ( /\ CalcElapsed * calc.reward_rate_per_second <= U64Max
             /\ CalcElapsed * calc.reward_rate_per_second * calc.stake_multiplier
                    <= U64Max ) =>
               /\ AccruedBetween > ExactBetween - 10000
               /\ AccruedBetween < ExactBetween + 10000

\* a reward that was positive at t1 has grown by t2, no product clamped
C18_Witness ==
    /\ calc.earlier # NotComputed
    /\ calc.earlier > 0 /\ calc.claimed > calc.earlier
    /\ CalcElapsed * calc.reward_rate_per_second * calc.stake_multiplier <= U64Max

-----------------------------------------------------------------------------
(* Claims about staking, checked under StakingSpec *)

\* the step is a call of `op` (the clock stands still) on a stake account
\* that exists when the call is made
StakeCall(op) ==
    /\ last'.op = op /\ clock' = clock
    /\ staking.stakes[last'.key].exists

\* the step is a claim_rewards by the owner of the stake account that succeeds
ClaimByOwnerSucceeds ==
    /\ StakeCall("claim_rewards")
    /\ last'.caller = staking.stakes[last'.key].owner
    /\ last'.err = "Ok"

\* C20, as stated: after every claim_rewards by the owner that succeeds, the
\* stake account still exists and its last_claim_timestamp is the clock
\* reading of that call.
C20_ClaimAdvances_AsStated ==
    [][ ClaimByOwnerSucceeds =>
            /\ staking'.stakes[last'.key].exists
            /\ staking'.stakes[last'.key].last_claim_timestamp = clock ]_vars

\* C20: after every claim_rewards by the owner that succeeds, the stake
\* account still exists; its last_claim_timestamp is the clock reading of
\* that call when the reward computed is positive, and is left as it was
\* (with the rest of the stake account) when the reward computed is 0.
C20_ClaimAdvances ==
    [][ ClaimByOwnerSucceeds =>
            LET stake_account == staking.stakes[last'.key]
                after == staking'.stakes[last'.key]
            IN  /\ after.exists
                /\ last'.amount > 0 =>
                       after = [stake_account EXCEPT !.last_claim_timestamp = clock]
                /\ last'.amount = 0 => after = stake_account ]_vars

\* a claim made later than the stake has paid a reward and moved
\* last_claim_timestamp to the clock reading
C20_Witness ==
    /\ last.op = "claim_rewards" /\ last.err = "Ok" /\ last.amount > 0
    /\ staking.stakes[last.key].exists
    /\ staking.stakes[last.key].last_claim_timestamp = clock
    /\ staking.stakes[last.key].stake_timestamp < clock
    /\ staking.rewards[last.caller] = last.amount

\* the step leaves every staking account and every wallet as it was
StakingKept == staking' = staking /\ bal' = bal

\* C21: a claim_rewards that follows a successful claim_rewards of the same
\* owner on the same stake account at the same clock reading computes
\* reward 0, transfers nothing, changes no state and returns success.
C21_SecondClaimNoOp ==
    [][ ( /\ StakeCall("claim_rewards")
          /\ last.op = "claim_rewards" /\ last.err = "Ok"
          /\ last.at = clock
          /\ last.key = last'.key /\ last.caller = last'.caller ) =>
            /\ last'.err = "Ok"
            /\ last'.amount = 0
            /\ StakingKept ]_vars

\* a claim that paid a reward has been followed, at the same clock reading,
\* by a claim that returned success and paid nothing
C21_Witness ==
    /\ last.op = "claim_rewards" /\ last.err = "Ok" /\ last.amount = 0
    /\ last.at = clock
    /\ staking.stakes[last.key].exists
    /\ staking.stakes[last.key].last_claim_timestamp = clock
    /\ staking.stakes[last.key].stake_timestamp < clock
    /\ staking.rewards[last.caller] > 0

\* C22: claim_rewards and unstake_nft signed by anyone but the owner of the
\* stake account fail: no reward is paid, no NFT leaves the vault,
\* total_staked and the stake account stay as they were; the owner of a
\* stake account never changes while the account exists.
C22_OwnerOnly ==
    [][ /\ ( /\ \/ StakeCall("claim_rewards")
                \/ StakeCall("unstake_nft")
             /\ last'.caller # staking.stakes[last'.key].owner ) =>
               /\ last'.err # "Ok"
               /\ StakingKept
        /\ \A k \in StakeKeys :
               (staking.stakes[k].exists /\ staking'.stakes[k].exists) =>
                   staking'.stakes[k].owner = staking.stakes[k].owner ]_vars

\* somebody else has tried to claim on a stake account with a reward pending
\* that the vault could pay, and was refused
C22_Witness ==
    /\ last.op = "claim_rewards" /\ last.err # "Ok"
    /\ staking.stakes[last.key].exists
    /\ last.caller # staking.stakes[last.key].owner
    /\ last.amount > 0 /\ staking.reward_vault >= last.amount
    /\ bal[last.caller] >= RewardAccountRent

\* C23: an unstake_nft that succeeds pays exactly the reward claim_rewards
\* computes at that clock reading, moves the one NFT from the vault to the
\* owner, takes one off total_staked and closes the stake account;
\* claim_rewards and unstake_nft on a stake account that does not exist fail
\* and change nothing, so the last reward is not paid twice.
C23_UnstakeSettles ==
    [][ /\ (StakeCall("unstake_nft") /\ last'.err = "Ok") =>
               LET stake_account == staking.stakes[last'.key]
                   owner == stake_account.owner
                   rewards == ClaimRewards(clock, stake_account.last_claim_timestamp,
                                           staking.pool.reward_rate_per_second,
                                           stake_account.stake_multiplier)
               IN  /\ last'.amount = rewards
                   /\ staking'.rewards = [staking.rewards EXCEPT ![owner] = @ + rewards]
                   /\ staking'.reward_vault = staking.reward_vault - rewards
                   /\ staking.holder[stake_account.nft_mint] = Vault
                   /\ staking'.holder =
                          [staking.holder EXCEPT ![stake_account.nft_mint] = owner]
                   /\ staking'.pool.total_staked = staking.pool.total_staked - 1
                   /\ ~staking'.stakes[last'.key].exists
        /\ ( /\ last'.op \in {"claim_rewards", "unstake_nft"} /\ clock' = clock
             /\ ~staking.stakes[last'.key].exists ) =>
               /\ last'.err # "Ok"
               /\ StakingKept ]_vars

\* an unstake_nft has paid a reward and returned the NFT
C23_Witness ==
    /\ last.op = "unstake_nft" /\ last.err = "Ok" /\ last.amount > 0
    /\ ~staking.stakes[last.key].exists
    /\ staking.holder[last.key[2]] = last.caller
    /\ staking.rewards[last.caller] >= last.amount

\* the stake accounts that exist
StakeAccounts == {k \in StakeKeys : staking.stakes[k].exists}

\* C24: total_staked is the number of stake accounts that exist: stake_nft
\* creates one and adds 1, unstake_nft closes one and subtracts 1, and no
\* other instruction changes total_staked.
C24_TotalStakedCounts ==
    [][ /\ staking'.pool.total_staked =
               Cardinality({k \in StakeKeys : staking'.stakes[k].exists})
        /\ staking'.pool.total_staked = staking.pool.total_staked + 1 =>
               last'.op = "stake_nft" /\ last'.err = "Ok"
        /\ staking'.pool.total_staked = staking.pool.total_staked - 1 =>
               last'.op = "unstake_nft" /\ last'.err = "Ok"
        /\ staking'.pool.total_staked \in
               {staking.pool.total_staked - 1, staking.pool.total_staked,
                staking.pool.total_staked + 1} ]_vars

\* two NFTs were staked and one of them has been unstaked again
C24_Witness ==
    /\ last.op = "unstake_nft" /\ last.err = "Ok"
    /\ staking.pool.total_staked = 1
    /\ Cardinality(StakeAccounts) = 1

\* the reward the handlers compute for an existing stake account now
Pending(stake_account) ==
    ClaimRewards(clock, stake_account.last_claim_timestamp,
                 staking.pool.reward_rate_per_second,
                 stake_account.stake_multiplier)

\* a staker holding the item, with the rent, no stake account and no vault
\* token account for it yet
CanStake(staker, item) ==
    /\ staking.pool.exists
    /\ staking.holder[item] = staker
    /\ ~staking.stakes[<<staker, item>>].exists
    /\ ~staking.vaults[item]
    /\ bal[staker] >= StakeRent + VaultRent

\* C29: stake_nft copies stake_multiplier from the nft_type account the
\* staker nominates, which need only belong to the nominated collection and
\* not be the type the NFT was minted under: the staker of any NFT of a
\* collection can obtain the multiplier of any type of that collection; the
\* snapshot is what every later claim_rewards and unstake_nft computes with.
C29_NominatedTypeMultiplier ==
    [][ /\ \A u \in StakingUsers, i \in Items, k \in StakingTypeKeys :
               (CanStake(u, i) /\ k[1] = ItemCollection[i]) =>
                   StakeNftErr(u, i, ItemCollection[i], k) = "Ok"
        /\ (last'.op = "stake_nft" /\ clock' = clock /\ last'.err = "Ok") =>
               LET stake_account == staking'.stakes[last'.key]
               IN  /\ stake_account.nft_type[1] = ItemCollection[stake_account.nft_mint]
                   /\ stake_account.stake_multiplier =
                          registry.types[stake_account.nft_type].stake_multiplier
        /\ \A k \in StakeKeys :
               (staking.stakes[k].exists /\ staking'.stakes[k].exists) =>
                   staking'.stakes[k].stake_multiplier =
                       staking.stakes[k].stake_multiplier
        /\ ( /\ last'.op \in {"claim_rewards", "unstake_nft"} /\ clock' = clock
             /\ last'.err = "Ok" ) =>
               /\ last'.amount = Pending(staking.stakes[last'.key])
               /\ staking'.rewards[last'.caller] =
                      staking.rewards[last'.caller] + last'.amount ]_vars

\* an NFT minted under the type of multiplier 10000 is staked with the
\* multiplier of the other type of its collection, and a reward computed
\* with it has been paid
C29_Witness ==
    /\ last.op = "claim_rewards" /\ last.err = "Ok" /\ last.amount > 0
    /\ staking.stakes[last.key].exists
    /\ staking.stakes[last.key].nft_type # ItemType[last.key[2]]
    /\ staking.stakes[last.key].stake_multiplier = 15000
    /\ registry.types[ItemType[last.key[2]]].stake_multiplier = 10000

\* C30: unstake_nft by the owner fails, leaving the NFT in the vault and the
\* stake account in place, whenever the pending reward is positive and more
\* than reward_token_vault holds; the NFT leaves the vault only in an
\* unstake_nft made when reward_token_vault holds at least the pending reward.
C30_UnstakeNeedsReserve ==
    [][ /\ ( /\ StakeCall("unstake_nft")
             /\ last'.caller = staking.stakes[last'.key].owner
             /\ Pending(staking.stakes[last'.key]) > 0
             /\ Pending(staking.stakes[last'.key]) > staking.reward_vault ) =>
               /\ last'.err # "Ok"
               /\ StakingKept
               /\ staking'.holder[last'.key[2]] = Vault
               /\ staking'.stakes[last'.key].exists
        /\ \A i \in Items :
               (staking.holder[i] = Vault /\ staking'.holder[i] # Vault) =>
                   /\ last'.op = "unstake_nft" /\ last'.err = "Ok"
                   /\ last'.key[2] = i
                   /\ staking.stakes[last'.key].exists
                   /\ staking.reward_vault >= Pending(staking.stakes[last'.key]) ]_vars

\* the owner's unstake_nft has been refused for want of reward tokens, with
\* the NFT still in the vault
C30_Witness ==
    /\ last.op = "unstake_nft" /\ last.err = "TokenInsufficientFunds"
    /\ staking.stakes[last.key].exists
    /\ staking.stakes[last.key].owner = last.caller
    /\ staking.holder[last.key[2]] = Vault
    /\ last.amount > staking.reward_vault

\* C31: the vault token account of an NFT is created by stake_nft and left
\* in place by unstake_nft, so a later stake_nft for an NFT that was staked
\* once, by the same or another holder, fails; each NFT is staked at most
\* once.
C31_StakedAtMostOnce ==
    [][ /\ (last'.op = "stake_nft" /\ clock' = clock /\ last'.err = "Ok") =>
               /\ ~staking.vaults[last'.key[2]]
               /\ staking'.vaults[last'.key[2]]
        /\ \A i \in Items : staking.vaults[i] => staking'.vaults[i]
        /\ ( /\ last'.op = "stake_nft" /\ clock' = clock
             /\ ghost.staked[last'.key[2]] > 0 ) =>
               /\ last'.err # "Ok"
               /\ StakingKept
        /\ \A i \in Items : ghost'.staked[i] <= 1 ]_vars

\* an NFT that was staked and unstaked has passed to another user, who
\* holds it with the rent for a stake, and whose stake_nft was refused
C31_Witness ==
    /\ last.op = "stake_nft" /\ last.err = "AccountAlreadyInUse"
    /\ ghost.staked[last.key[2]] = 1
    /\ staking.holder[last.key[2]] = last.caller
    /\ last.caller # ItemOwner[last.key[2]]
    /\ ~staking.stakes[last.key].exists
    /\ \A u \in StakingUsers : ~staking.stakes[<<u, last.key[2]>>].exists
    /\ bal[last.caller] >= StakeRent + VaultRent

\* the reward of the whole time a stake account has existed, unrounded
\* product first, then one floor
RewardSinceStake(stake_account, now) ==
    ((now - stake_account.stake_timestamp) * staking.pool.reward_rate_per_second
        * stake_account.stake_multiplier) \div 10000

\* the step pays `amount` out of the reward vault on stake account k
PaidOn(k) ==
    IF /\ last'.op \in {"claim_rewards", "unstake_nft"} /\ clock' = clock
       /\ last'.err = "Ok" /\ last'.key = k
    THEN last'.amount ELSE 0

\* C34: what a stake account has been paid by its claim_rewards and by the
\* unstake_nft that may end them never exceeds
\* floor((now - stake_timestamp) * rate * multiplier / 10000), no product
\* being clamped: a claim that pays moves last_claim_timestamp to now, so no
\* interval is paid twice.
C34_TotalRewardBound ==
    [][ \A k \in StakeKeys : staking.stakes[k].exists =>
          /\ ghost'.rewarded[k] = ghost.rewarded[k] + PaidOn(k)
          /\ staking'.rewards[k[1]] = staking.rewards[k[1]] + PaidOn(k)
          /\ ( /\ (clock - staking.stakes[k].stake_timestamp)
                      * staking.pool.reward_rate_per_second <= U64Max
               /\ (clock - staking.stakes[k].stake_timestamp)
                      * staking.pool.reward_rate_per_second
                      * staking.stakes[k].stake_multiplier <= U64Max ) =>
                 ghost'.rewarded[k] <= RewardSinceStake(staking.stakes[k], clock)
          /\ (PaidOn(k) > 0 /\ staking'.stakes[k].exists) =>
                 staking'.stakes[k].last_claim_timestamp = clock ]_vars

\* a stake account was paid twice, each time a positive reward, and the two
\* floors together come to less than the one floor over the whole time
C34_Witness ==
    /\ last.op = "claim_rewards" /\ last.err = "Ok" /\ last.amount > 0
    /\ staking.stakes[last.key].exists
    /\ ghost.rewarded[last.key] > last.amount
    /\ ghost.rewarded[last.key] < RewardSinceStake(staking.stakes[last.key], clock)

=============================================================================
